---- MODULE Spec2Model ----
(***************************************************************************)
(* Model of the media-monitoring dashboard's ingestion core:               *)
(*   - src/src/lib/publishedSheet.ts : parseCsv, fetchPublishedSheetRows   *)
(*   - normalizeDate (five textually identical copies, one per page)       *)
(*   - the count distributions of the pages and of DashboardLayout         *)
(*   - the fetch / timer lifecycle every data page shares (fetchSheet)     *)
(*                                                                         *)
(* A JavaScript string is modelled as a sequence of one-character strings, *)
(* so that trimming, regular-expression matching, padding and CSV          *)
(* scanning are computed character by character as the code does.          *)
(***************************************************************************)
EXTENDS Integers, Sequences, FiniteSets, TLC

VARIABLES
    \* ---- page lifecycle (fetchSheet / useEffect of a data page)
    mounted, timerOn, loading, error, rows, pending, nextId,
    lastSettled, everSucceeded, errorSource,
    requests, errorCause, lastCall, failedAt,
    \* ---- normalizeDate
    dateSrc, dateIn, dateParsed, dateOut, dateAgain, datePhase,
    \* ---- aggregation
    aggRows, aggOut, aggPhase,
    \* ---- CSV parsing and fetchPublishedSheetRows
    csvSrc, csvText, csvRows, csvRecords, csvPhase,
    \* ---- mapSentiment
    toneSrc, tonePage, toneIn, toneOut, tonePhase,
    \* ---- the row normalizer of a page, run on two one-record sheets
    fieldPage, fieldSrc, fieldSheets, fieldOut, fieldPhase,
    \* ---- OverviewPage from the response text to its filtered rows
    ovSrc, ovToday, ovText, ovRecords, ovRows, ovDateFrom, ovDateTo,
    ovCompanyFilter, ovSentimentFilter, ovPhase,
    \* ---- the integer shares of the sentiment counts
    shareCounts, shareOut, sharePhase,
    \* ---- SpokespersonPage and TopicsPage from the records to their breakdowns
    brkSrc, brkRows, brkOut, brkPhase,
    \* ---- the pagination of one list of a page
    pgList, pgItems, pgPage, pgEffects, pgSortBy, pgSortDirection,
    \* ---- the filters of a page and the fetches that may set them
    fltView, flt, fltShown, fltInFlight, fltStarted, fltLast

pageVars == <<mounted, timerOn, loading, error, rows, pending, nextId,
              lastSettled, everSucceeded, errorSource,
              requests, errorCause, lastCall, failedAt>>
dateVars == <<dateSrc, dateIn, dateParsed, dateOut, dateAgain, datePhase>>
aggVars  == <<aggRows, aggOut, aggPhase>>
csvVars  == <<csvSrc, csvText, csvRows, csvRecords, csvPhase>>
toneVars == <<toneSrc, tonePage, toneIn, toneOut, tonePhase>>
\* The stages that map fetched records to the rows and figures of a page.
fieldVars == <<fieldPage, fieldSrc, fieldSheets, fieldOut, fieldPhase>>
overviewVars == <<ovSrc, ovToday, ovText, ovRecords, ovRows, ovDateFrom, ovDateTo,
                  ovCompanyFilter, ovSentimentFilter, ovPhase>>
shareVars == <<shareCounts, shareOut, sharePhase>>
breakdownVars == <<brkSrc, brkRows, brkOut, brkPhase>>
pagingVars == <<pgList, pgItems, pgPage, pgEffects, pgSortBy, pgSortDirection>>
filterVars == <<fltView, flt, fltShown, fltInFlight, fltStarted, fltLast>>
mapVars  == <<toneVars, fieldVars, overviewVars, shareVars, breakdownVars,
              pagingVars, filterVars>>
vars     == <<pageVars, dateVars, aggVars, csvVars, mapVars>>

\* Value of a variable that an operation has not produced yet.
None == <<"none">>

(***************************************************************************)
(* The state of each part before anything has run.  Every specification    *)
(* below runs one part and leaves the others as they are here.             *)
(***************************************************************************)
\* useState<string | null>(null)
NoError == "null"

NoFetch == [kind |-> "none", ok |-> FALSE]

NoSource == [kind |-> "none", day |-> <<>>, sep1 |-> "-", month |-> <<>>,
             sep2 |-> "-", year |-> <<>>]

NoAggOut == [topic |-> <<>>, spokesperson |-> <<>>, layoutSpokesperson |-> <<>>]

NoCsvSource == [kind |-> "none", table |-> <<>>, lineEnd |-> <<"\n">>,
                trailing |-> FALSE, raw |-> <<>>]

\* A page as useState initializes it, before its effect has run.
PageIdle ==
    /\ mounted = FALSE /\ timerOn = FALSE /\ loading = TRUE /\ error = NoError
    /\ rows = <<>> /\ pending = {} /\ nextId = 1
    /\ lastSettled = NoFetch /\ everSucceeded = FALSE /\ errorSource = "none"
    /\ requests = 0 /\ errorCause = "none" /\ lastCall = "none" /\ failedAt = 0

DateIdle ==
    /\ dateSrc = NoSource /\ dateIn = <<>> /\ dateParsed = None
    /\ dateOut = None /\ dateAgain = None /\ datePhase = "idle"

AggIdle == aggRows = <<>> /\ aggOut = NoAggOut /\ aggPhase = "idle"

CsvIdle ==
    /\ csvSrc = NoCsvSource /\ csvText = <<>> /\ csvRows = None
    /\ csvRecords = None /\ csvPhase = "idle"

NoToneSource == [pre |-> <<>>, first |-> <<>>, second |-> <<>>, form |-> "lower"]

ToneIdle ==
    /\ toneSrc = NoToneSource /\ tonePage = "none" /\ toneIn = <<>>
    /\ toneOut = "none" /\ tonePhase = "idle"

NoFieldSource == [first |-> <<>>, firstCell |-> <<>>, second |-> <<>>,
                  secondCell |-> <<>>, respelling |-> "same"]

FieldIdle ==
    /\ fieldPage = "none" /\ fieldSrc = NoFieldSource /\ fieldSheets = <<>>
    /\ fieldOut = <<>> /\ fieldPhase = "idle"

\* OverviewPage as useState initializes its rows and filters.
OverviewIdle ==
    /\ ovSrc = <<>> /\ ovToday = <<>> /\ ovText = <<>> /\ ovRecords = <<>>
    /\ ovRows = <<>> /\ ovDateFrom = <<>> /\ ovDateTo = <<>>
    /\ ovCompanyFilter = "All" /\ ovSentimentFilter = "All" /\ ovPhase = "idle"

NoCounts == [Positive |-> 0, Neutral |-> 0, Negative |-> 0]

ShareIdle == shareCounts = NoCounts /\ shareOut = None /\ sharePhase = "idle"

BreakdownIdle ==
    brkSrc = <<>> /\ brkRows = None /\ brkOut = None /\ brkPhase = "idle"

NoList == [view |-> "none", list |-> "none"]

\* useState(1) for the page, useState("TANGGAL") and useState("desc") for the sort.
PagingIdle ==
    /\ pgList = NoList /\ pgItems = 0 /\ pgPage = 1 /\ pgEffects = {}
    /\ pgSortBy = "TANGGAL" /\ pgSortDirection = "desc"

\* useState("") for dateFrom and dateTo, useState("All") for companyFilter and
\* sentimentFilter, useState("Semua") for mediaType.
NoFilters == [dateFrom |-> <<>>, dateTo |-> <<>>, companyFilter |-> "All",
              sentimentFilter |-> "All", mediaType |-> "Semua"]

FilterIdle ==
    /\ fltView = "none" /\ flt = NoFilters /\ fltShown = FALSE
    /\ fltInFlight = {} /\ fltStarted = 0 /\ fltLast = "none"

MapIdle ==
    /\ ToneIdle /\ FieldIdle /\ OverviewIdle /\ ShareIdle /\ BreakdownIdle
    /\ PagingIdle /\ FilterIdle

(***************************************************************************)
(* Strings                                                                 *)
(***************************************************************************)
Digits == {"0", "1", "2", "3", "4", "5", "6", "7", "8", "9"}

\* The characters String.prototype.trim removes (those of the modelled alphabet).
WhiteSpace == {" ", "\t", "\n", "\r"}

RECURSIVE TrimStart(_)
TrimStart(s) ==
    IF s # <<>> /\ Head(s) \in WhiteSpace THEN TrimStart(Tail(s)) ELSE s

RECURSIVE TrimEnd(_)
TrimEnd(s) ==
    IF s # <<>> /\ s[Len(s)] \in WhiteSpace
    THEN TrimEnd(SubSeq(s, 1, Len(s) - 1))
    ELSE s

\* String.prototype.trim
Trim(s) == TrimEnd(TrimStart(s))

\* String.prototype.padStart(2, "0")
PadStart2(s) == IF Len(s) < 2 THEN <<"0">> \o s ELSE s

\* Number of consecutive digits of t from position i on, counted up to max.
RECURSIVE DigitRun(_, _, _)
DigitRun(t, i, max) ==
    IF max = 0 \/ i > Len(t) \/ t[i] \notin Digits
    THEN 0
    ELSE 1 + DigitRun(t, i + 1, max - 1)

(***************************************************************************)
(* normalizeDate                                                           *)
(***************************************************************************)
DateSeparators == {"/", "-"}

NoMatch == [ok |-> FALSE, day |-> <<>>, month |-> <<>>, year |-> <<>>]

\* The tail of the pattern after the first group took n1 digits at i:
\* [\/\-](\d{1,2})[\/\-](\d{2,4}), the second group trying two digits before one,
\* the third taking as many digits (up to four) as there are.
MatchRest(t, i, n1) ==
    LET p2 == i + n1 + 1
        try2(n2) ==
            LET p3 == p2 + n2 + 1
                n3 == DigitRun(t, p3, 4)
            IN  IF /\ DigitRun(t, p2, 2) >= n2
                   /\ p2 + n2 <= Len(t)
                   /\ t[p2 + n2] \in DateSeparators
                   /\ n3 >= 2
                THEN [ok |-> TRUE,
                      day |-> SubSeq(t, i, i + n1 - 1),
                      month |-> SubSeq(t, p2, p2 + n2 - 1),
                      year |-> SubSeq(t, p3, p3 + n3 - 1)]
                ELSE NoMatch
    IN  IF /\ DigitRun(t, i, 2) >= n1
           /\ i + n1 <= Len(t)
           /\ t[i + n1] \in DateSeparators
        THEN IF try2(2).ok THEN try2(2) ELSE try2(1)
        ELSE NoMatch

\* /(\d{1,2})[\/\-](\d{1,2})[\/\-](\d{2,4})/ tried at position i: the first group is
\* greedy, two digits before one.
MatchAt(t, i) ==
    IF MatchRest(t, i, 2).ok THEN MatchRest(t, i, 2) ELSE MatchRest(t, i, 1)

\* String.prototype.match with an unanchored pattern: the leftmost position at which
\* the pattern matches.
RECURSIVE MatchFrom(_, _)
MatchFrom(t, i) ==
    IF i > Len(t) THEN NoMatch
    ELSE IF MatchAt(t, i).ok THEN MatchAt(t, i)
    ELSE MatchFrom(t, i + 1)

DateMatch(t) == MatchFrom(t, 1)

\* Result of new Date(trimmed) when getTime() is NaN.
Invalid == <<"Invalid Date">>

HasDigit(t) == \E i \in 1..Len(t) : t[i] \in Digits

AllDigits(t) == \A i \in 1..Len(t) : t[i] \in Digits

IsoMonths == {<<"0", "1">>, <<"0", "2">>, <<"0", "3">>, <<"0", "4">>,
              <<"0", "5">>, <<"0", "6">>, <<"0", "7">>, <<"0", "8">>,
              <<"0", "9">>, <<"1", "0">>, <<"1", "1">>, <<"1", "2">>}

\* Dates an engine's own (non-ISO) parsing heuristics may produce for a text that
\* holds digits; toISOString is UTC, so the day also depends on the time zone.
LegacyDates == {<<"2", "0", "0", "1", "-", "0", "5", "-", "0", "3">>,
                <<"2", "0", "0", "1", "-", "0", "5", "-", "0", "2">>}

\* The outcomes of `new Date(trimmed)` followed by toISOString().slice(0, 10):
\*  - a text without any digit is no date in any engine;
\*  - the ECMAScript date-only forms YYYY and YYYY-MM are parsed as UTC;
\*  - for any other text the language leaves the parse to the implementation.
DateParse(t) ==
    IF ~HasDigit(t) THEN {Invalid}
    ELSE IF Len(t) = 4 /\ AllDigits(t)
         THEN {t \o <<"-", "0", "1", "-", "0", "1">>}
    ELSE IF Len(t) = 7 /\ AllDigits(SubSeq(t, 1, 4)) /\ t[5] = "-"
                       /\ SubSeq(t, 6, 7) \in IsoMonths
         THEN {t \o <<"-", "0", "1">>}
    ELSE {Invalid} \cup LegacyDates

\* normalizeDate whose third group's two-digit year is left as it is.
normalizeDate_noCentury(value, parsed) ==
    LET trimmed == Trim(value)
        match == DateMatch(trimmed)
    IN  IF trimmed = <<>> THEN <<>>
        ELSE IF match.ok
             THEN match.year \o <<"-">> \o PadStart2(match.month)
                             \o <<"-">> \o PadStart2(match.day)
        ELSE IF parsed = Invalid THEN trimmed
        ELSE parsed

\* normalizeDate that returns its argument, not the trimmed text, on failure.
normalizeDate_untrimmed(value, parsed) ==
    LET trimmed == Trim(value)
        match == DateMatch(trimmed)
    IN  IF trimmed = <<>> THEN value
        ELSE IF match.ok
             THEN (IF Len(match.year) = 2 THEN <<"2", "0">> \o match.year
                                          ELSE match.year)
                  \o <<"-">> \o PadStart2(match.month)
                  \o <<"-">> \o PadStart2(match.day)
        ELSE IF parsed = Invalid THEN value
        ELSE parsed

\* normalizeDate(value); parsed is what `new Date(trimmed)` gave, read only when
\* the pattern does not match.
normalizeDate(value, parsed) ==
    LET trimmed == Trim(value)
        match == DateMatch(trimmed)
    IN  IF trimmed = <<>> THEN <<>>
        ELSE IF match.ok
             THEN LET day == PadStart2(match.day)
                      month == PadStart2(match.month)
                      year == IF Len(match.year) = 2
                              THEN <<"2", "0">> \o match.year
                              ELSE match.year
                  IN  year \o <<"-">> \o month \o <<"-">> \o day
        ELSE IF parsed = Invalid THEN trimmed
        ELSE parsed

(***************************************************************************)
(* Inputs of normalizeDate                                                 *)
(***************************************************************************)
\* Longest run of blanks put before and after a date text.
MaxPad == 1

DayTexts   == {<<"5">>, <<"0", "5">>, <<"2", "4">>}
MonthTexts == {<<"3">>, <<"0", "3">>, <<"1", "2">>}
YearTexts  == {<<"2", "4">>, <<"0", "5">>, <<"2", "0", "2", "4">>,
               <<"1", "9", "9", "9">>}
IsoYears   == {<<"2", "0", "2", "4">>, <<"2", "0", "2", "0">>,
               <<"1", "9", "9", "9">>}
IsoDays    == {<<"0", "5">>, <<"2", "0">>, <<"3", "1">>}

\* Cell texts that are neither day-first nor ISO dates.
OtherTexts == {<<>>,
               <<"T", "B", "D">>,
               <<"T", " ", "B">>,
               <<"2", "0", "2", "4">>,
               <<"2", "0", "2", "4", "-", "0", "3">>,
               <<"2", "0", "2", "4", "-", "1", "3">>,
               <<"5", "/", "3">>,
               <<"5", "/", "3", "/", "2">>,
               <<"T", "5", "/", "3", "/", "2", "4">>,
               <<"5", "/", "3", "/", "2", "0", "2">>}

Blanks(n) == [i \in 1..n |-> " "]

DateSources ==
    [kind : {"dayfirst"}, day : DayTexts, sep1 : DateSeparators,
     month : MonthTexts, sep2 : DateSeparators, year : YearTexts]
    \cup
    [kind : {"iso"}, day : IsoDays, sep1 : {"-"}, month : {<<"0", "3">>, <<"1", "2">>},
     sep2 : {"-"}, year : IsoYears]
    \cup
    [kind : {"other"}, day : OtherTexts, sep1 : {"-"}, month : {<<>>},
     sep2 : {"-"}, year : {<<>>}]

\* The text of a source, without the blanks around it.
SourceText(src) ==
    CASE src.kind = "dayfirst" ->
            src.day \o <<src.sep1>> \o src.month \o <<src.sep2>> \o src.year
      [] src.kind = "iso" ->
            src.year \o <<"-">> \o src.month \o <<"-">> \o src.day
      [] OTHER -> src.day

DateInit ==
    /\ PageIdle /\ AggIdle /\ CsvIdle /\ MapIdle
    /\ dateSrc \in DateSources
    /\ \E before \in 0..MaxPad, after \in 0..MaxPad :
          dateIn = Blanks(before) \o SourceText(dateSrc) \o Blanks(after)
    /\ dateParsed = None
    /\ dateOut = None
    /\ dateAgain = None
    /\ datePhase = "input"

\* Whether normalizeDate(value) reaches `new Date(trimmed)`.
CallsDate(value) == Trim(value) # <<>> /\ ~DateMatch(Trim(value)).ok

\* A page normalizer calls normalizeDate on the cell text of a row.
NormalizeDateCall ==
    /\ datePhase = "input"
    /\ \E parsed \in (IF CallsDate(dateIn) THEN DateParse(Trim(dateIn)) ELSE {None}) :
          /\ dateParsed' = parsed
          /\ dateOut' = normalizeDate(dateIn, parsed)
    /\ datePhase' = "done"
    /\ UNCHANGED <<dateSrc, dateIn, dateAgain, pageVars, aggVars, csvVars, mapVars>>

\* What `new Date` gives for the text of a second call: what it gave before when the
\* text is the one it was given before, one of its outcomes otherwise.
ParseAgain(value) ==
    IF ~CallsDate(value) THEN {None}
    ELSE IF CallsDate(dateIn) /\ Trim(value) = Trim(dateIn) THEN {dateParsed}
    ELSE DateParse(Trim(value))

\* normalizeDate is called on a text it returned.
NormalizeDateAgain ==
    /\ datePhase = "done"
    /\ \E parsed \in ParseAgain(dateOut) :
          dateAgain' = normalizeDate(dateOut, parsed)
    /\ datePhase' = "again"
    /\ UNCHANGED <<dateSrc, dateIn, dateParsed, dateOut, pageVars, aggVars, csvVars,
                   mapVars>>

DateNext ==
    \/ NormalizeDateCall
    \/ NormalizeDateAgain

SpecDate == DateInit /\ [][DateNext]_vars

(***************************************************************************)
(* Claims about normalizeDate (checked under SpecDate)                     *)
(***************************************************************************)

\* C2: normalizeDate applied to a text that is already in ISO form YYYY-MM-DD
\* returns that text unchanged.
C2_IsoDateUnchanged ==
    (datePhase = "done" /\ dateSrc.kind = "iso" /\ dateIn = SourceText(dateSrc))
        => dateOut = dateIn

\* C5: normalizeDate on a day-first date D/M/YY or D-M-YYYY (separators "/" or "-",
\* blanks around it allowed) returns YYYY-MM-DD: the year with "20" put before a
\* two-digit year, then the month and the day, each zero-padded to two digits.
C5_DayFirstToIso ==
    LET two(x) == IF Len(x) = 1 THEN <<"0">> \o x ELSE x
        full(y) == IF Len(y) = 2 THEN <<"2", "0">> \o y ELSE y
    IN  (datePhase = "done" /\ dateSrc.kind = "dayfirst")
            => dateOut = full(dateSrc.year) \o <<"-">> \o two(dateSrc.month)
                                            \o <<"-">> \o two(dateSrc.day)

\* C5 witness: "5/3/24" was normalized to "2024-03-05".
C5_Witness ==
    /\ datePhase = "done"
    /\ dateIn = <<"5", "/", "3", "/", "2", "4">>
    /\ dateOut = <<"2", "0", "2", "4", "-", "0", "3", "-", "0", "5">>

\* C6: normalizeDate always returns a text: for an input that matches no date
\* pattern and that `new Date` rejects it returns the trimmed input unchanged, and
\* for an empty or blank-only input it returns the empty text.
C6_FailureReturnsTrimmed ==
    datePhase = "done" =>
        /\ dateOut # None
        /\ dateParsed = Invalid => dateOut = SourceText(dateSrc)
        /\ (dateSrc.kind = "other" /\ dateSrc.day = <<>>) => dateOut = <<>>

\* C6 witness: " TBD" (a blank before it) was rejected by `new Date` and came back
\* as "TBD"; a blank-only input came back empty.
C6_Witness ==
    /\ datePhase = "done"
    /\ dateIn = <<" ", "T", "B", "D">>
    /\ dateParsed = Invalid
    /\ dateOut = <<"T", "B", "D">>

\* C26: normalizeDate is idempotent: normalizeDate(normalizeDate(s)) =
\* normalizeDate(s) for every input text s; in particular normalizing an already
\* normalized YYYY-MM-DD value again does not change it.
C26_NormalizeDateIdempotent ==
    datePhase = "again" => dateAgain = dateOut

(***************************************************************************)
(* parseCsv and fetchPublishedSheetRows (src/src/lib/publishedSheet.ts)    *)
(***************************************************************************)
\* text[i + 1] past the end of the text
Undefined == "undefined"

CharAt(text, i) == IF i <= Len(text) THEN text[i] ELSE Undefined

\* The variables of parseCsv before its loop; `skip` holds while the loop has
\* advanced i over the character after the current one (i += 1).
CsvStart == [rows |-> <<>>, currentRow |-> <<>>, currentValue |-> <<>>,
             inQuotes |-> FALSE, skip |-> FALSE]

\* One iteration of the loop in which a quote always toggles inQuotes.
CsvStep_noEscape(st, text, i) ==
    LET char == text[i]
        nextChar == CharAt(text, i + 1)
    IN  IF st.skip THEN [st EXCEPT !.skip = FALSE]
        ELSE IF char = "\""
        THEN [st EXCEPT !.inQuotes = ~st.inQuotes]
        ELSE IF char = "," /\ ~st.inQuotes
        THEN [st EXCEPT !.currentRow = Append(st.currentRow, st.currentValue),
                        !.currentValue = <<>>]
        ELSE IF (char = "\n" \/ char = "\r") /\ ~st.inQuotes
        THEN [st EXCEPT !.rows = Append(st.rows,
                                        Append(st.currentRow, st.currentValue)),
                        !.currentRow = <<>>,
                        !.currentValue = <<>>,
                        !.skip = (char = "\r" /\ nextChar = "\n")]
        ELSE [st EXCEPT !.currentValue = Append(st.currentValue, char)]

\* One iteration of a loop that ends a row at CR and again at the LF after it.
CsvStep_crlfTwice(st, text, i) ==
    LET char == text[i]
        nextChar == CharAt(text, i + 1)
    IN  IF st.skip THEN [st EXCEPT !.skip = FALSE]
        ELSE IF char = "\""
        THEN IF st.inQuotes /\ nextChar = "\""
             THEN [st EXCEPT !.currentValue = Append(st.currentValue, "\""),
                             !.skip = TRUE]
             ELSE [st EXCEPT !.inQuotes = ~st.inQuotes]
        ELSE IF char = "," /\ ~st.inQuotes
        THEN [st EXCEPT !.currentRow = Append(st.currentRow, st.currentValue),
                        !.currentValue = <<>>]
        ELSE IF (char = "\n" \/ char = "\r") /\ ~st.inQuotes
        THEN [st EXCEPT !.rows = Append(st.rows,
                                        Append(st.currentRow, st.currentValue)),
                        !.currentRow = <<>>,
                        !.currentValue = <<>>]
        ELSE [st EXCEPT !.currentValue = Append(st.currentValue, char)]

\* One iteration of the loop of parseCsv, at index i (1-based).
CsvStep(st, text, i) ==
    LET char == text[i]
        nextChar == CharAt(text, i + 1)
    IN  IF st.skip THEN [st EXCEPT !.skip = FALSE]
        ELSE IF char = "\""
        THEN IF st.inQuotes /\ nextChar = "\""
             THEN [st EXCEPT !.currentValue = Append(st.currentValue, "\""),
                             !.skip = TRUE]
             ELSE [st EXCEPT !.inQuotes = ~st.inQuotes]
        ELSE IF char = "," /\ ~st.inQuotes
        THEN [st EXCEPT !.currentRow = Append(st.currentRow, st.currentValue),
                        !.currentValue = <<>>]
        ELSE IF (char = "\n" \/ char = "\r") /\ ~st.inQuotes
        THEN [st EXCEPT !.rows = Append(st.rows,
                                        Append(st.currentRow, st.currentValue)),
                        !.currentRow = <<>>,
                        !.currentValue = <<>>,
                        !.skip = (char = "\r" /\ nextChar = "\n")]
        ELSE [st EXCEPT !.currentValue = Append(st.currentValue, char)]

\* The iterations lo..hi of the loop of parseCsv, run from the variables st: the
\* first half of them, and once those variables are known, the second half.
RECURSIVE ScanCsv(_, _, _, _)
ScanCsv(text, lo, hi, st) ==
    IF lo > hi THEN st
    ELSE IF lo = hi THEN CsvStep(st, text, lo)
    ELSE LET firstHalf == ScanCsv(text, lo, (lo + hi) \div 2, st)
         IN  IF firstHalf.skip \in BOOLEAN
             THEN ScanCsv(text, ((lo + hi) \div 2) + 1, hi, firstHalf)
             ELSE firstHalf

RECURSIVE ScanCsv_noEscape(_, _, _, _)
ScanCsv_noEscape(text, lo, hi, st) ==
    IF lo > hi THEN st
    ELSE IF lo = hi THEN CsvStep_noEscape(st, text, lo)
    ELSE LET firstHalf == ScanCsv_noEscape(text, lo, (lo + hi) \div 2, st)
         IN  IF firstHalf.skip \in BOOLEAN
             THEN ScanCsv_noEscape(text, ((lo + hi) \div 2) + 1, hi, firstHalf)
             ELSE firstHalf

\* The flush after the loop: currentRow.push(currentValue); rows.push(currentRow)
CsvFlush(st) == Append(st.rows, Append(st.currentRow, st.currentValue))

\* parseCsv in which a quote always toggles inQuotes.
parseCsv_noEscape(text) == CsvFlush(ScanCsv_noEscape(text, 1, Len(text), CsvStart))

\* parseCsv(text)
parseCsv(text) == CsvFlush(ScanCsv(text, 1, Len(text), CsvStart))

\* The byte order mark, U+FEFF.
BOM == "\\uFEFF"

\* header.replace(/^\uFEFF/, "").trim()
CleanHeader(header) ==
    Trim(IF header # <<>> /\ Head(header) = BOM THEN Tail(header) ELSE header)

\* row.some((cell) => cell.trim() !== "")
HasContent(row) == \E c \in 1..Len(row) : Trim(row[c]) # <<>>

\* .filter((row) => row.some(...)): the rows with content, in their order.
RECURSIVE FilterRows(_)
FilterRows(seq) ==
    IF seq = <<>> THEN <<>>
    ELSE IF HasContent(Head(seq)) THEN <<Head(seq)>> \o FilterRows(Tail(seq))
    ELSE FilterRows(Tail(seq))

\* MakeRecord that stores the cell as parseCsv read it.
MakeRecord_raw(headers, row) ==
    LET named == {i \in 1..Len(headers) : headers[i] # <<>>}
        last(h) == CHOOSE i \in named :
                      /\ headers[i] = h
                      /\ \A j \in named : headers[j] = h => j <= i
    IN  [h \in {headers[i] : i \in named} |->
            IF last(h) <= Len(row) THEN row[last(h)] ELSE <<>>]

\* The record built from one row: for every non-empty header, the trimmed cell at
\* the last index holding that header, or "" when the row has no cell there.
MakeRecord(headers, row) ==
    LET named == {i \in 1..Len(headers) : headers[i] # <<>>}
        last(h) == CHOOSE i \in named :
                      /\ headers[i] = h
                      /\ \A j \in named : headers[j] = h => j <= i
    IN  [h \in {headers[i] : i \in named} |->
            IF last(h) <= Len(row) THEN Trim(row[last(h)]) ELSE <<>>]

\* The rows of the table after the header, none of them dropped.
DataRows_unfiltered(table) == Tail(table)

\* table.slice(1).filter(...)
DataRows(table) == FilterRows(Tail(table))

\* fetchPublishedSheetRows from the parsed table on (response.ok held).
BuildRecords(table) ==
    IF Len(table) = 0 THEN <<>>
    ELSE LET headers == [i \in 1..Len(table[1]) |-> CleanHeader(table[1][i])]
             kept == DataRows(table)
         IN  [r \in 1..Len(kept) |-> MakeRecord(headers, kept[r])]

(***************************************************************************)
(* Inputs of the CSV stage: the text of the HTTP response                  *)
(***************************************************************************)
\* Longest cell of a row written with every cell quoted.
MaxCellLen == 2
\* Most data rows of a sheet written without quotes.
MaxDataRows == 2
\* Longest response text taken character by character.
MaxRawLen == 3

\* Characters of quoted cells: a letter and the four characters quoting is for.
QuotedChars == {"a", ",", "\"", "\r", "\n"}
\* Characters of a raw response text.
RawChars == {"a", " ", ",", "\"", "\r", "\n"}

\* All sequences over S of length 0..n.
SeqsUpTo(S, n) == UNION {[1..k -> S] : k \in 0..n}

QuotedCells == SeqsUpTo(QuotedChars, MaxCellLen)
QuotedRows == [1..1 -> QuotedCells] \cup [1..2 -> QuotedCells]

\* Cells that need no quoting; some carry blanks around their content.
PlainCells == {<<>>, <<" ">>, <<"a">>, <<" ", "a", " ">>}
PlainRows == [1..1 -> PlainCells] \cup [1..2 -> PlainCells]
HeaderRows == {<< <<"h">>, <<"k">> >>, << <<" ", "h">>, <<>> >>}
LineEnds == {<<"\n">>, <<"\r">>, <<"\r", "\n">>}

\* A cell in double quotes, its own quotes doubled.
RECURSIVE DoubleQuotes(_)
DoubleQuotes(cell) ==
    IF cell = <<>> THEN <<>>
    ELSE (IF Head(cell) = "\"" THEN <<"\"", "\"">> ELSE <<Head(cell)>>)
         \o DoubleQuotes(Tail(cell))

QuoteCell(cell) == <<"\"">> \o DoubleQuotes(cell) \o <<"\"">>

\* The texts of seq joined with sep between them.
RECURSIVE Join(_, _)
Join(seq, sep) ==
    IF seq = <<>> THEN <<>>
    ELSE IF Len(seq) = 1 THEN seq[1]
    ELSE seq[1] \o sep \o Join(Tail(seq), sep)

QuotedLine(row) == Join([c \in 1..Len(row) |-> QuoteCell(row[c])], <<",">>)
PlainLine(row) == Join(row, <<",">>)

CsvSources ==
    [kind : {"quoted"}, table : {<<row>> : row \in QuotedRows},
     lineEnd : {<<"\n">>}, trailing : {FALSE}, raw : {<<>>}]
    \cup
    [kind : {"plain"},
     table : {<<h>> \o d : h \in HeaderRows, d \in SeqsUpTo(PlainRows, MaxDataRows)},
     lineEnd : LineEnds, trailing : BOOLEAN, raw : {<<>>}]
    \cup
    [kind : {"raw"}, table : {<<>>}, lineEnd : {<<"\n">>}, trailing : {FALSE},
     raw : SeqsUpTo(RawChars, MaxRawLen)]

\* The response text of a source.
CsvTextOf(src) ==
    CASE src.kind = "quoted" -> QuotedLine(src.table[1])
      [] src.kind = "plain" ->
            Join([r \in 1..Len(src.table) |-> PlainLine(src.table[r])], src.lineEnd)
            \o (IF src.trailing THEN src.lineEnd ELSE <<>>)
      [] OTHER -> src.raw

CsvInit ==
    /\ PageIdle /\ DateIdle /\ AggIdle /\ MapIdle
    /\ csvSrc \in CsvSources
    /\ csvText = CsvTextOf(csvSrc)
    /\ csvRows = None
    /\ csvRecords = None
    /\ csvPhase = "response"

\* fetchPublishedSheetRows once response.text() has resolved: parseCsv, then the
\* header-keyed records.
FetchPublishedSheetRows ==
    /\ csvPhase = "response"
    /\ csvRows' = parseCsv(csvText)
    /\ csvRecords' = BuildRecords(parseCsv(csvText))
    /\ csvPhase' = "done"
    /\ UNCHANGED <<csvSrc, csvText, pageVars, dateVars, aggVars, mapVars>>

CsvNext == FetchPublishedSheetRows

SpecCsv == CsvInit /\ [][CsvNext]_vars

(***************************************************************************)
(* Claims about the CSV stage (checked under SpecCsv)                      *)
(***************************************************************************)

\* C7: a row whose cells are each written in double quotes with embedded quotes
\* doubled, joined with commas, parses to exactly one row whose cells are the
\* original values (cells over a letter, comma, double quote, CR and LF).
C7_QuotedRoundTrip ==
    (csvPhase = "done" /\ csvSrc.kind = "quoted") => csvRows = csvSrc.table

\* C7 witness: the row [ '",' , CR LF ] was written, parsed and came back.
C7_Witness ==
    /\ csvPhase = "done"
    /\ csvSrc.kind = "quoted"
    /\ csvSrc.table = << << <<"\"", ",">>, <<"\r", "\n">> >> >>
    /\ csvRows = csvSrc.table

\* C8: parsing the empty text produces an empty row sequence (zero rows).
C8_EmptyTextNoRows ==
    (csvPhase = "done" /\ csvText = <<>>) => Len(csvRows) = 0

\* The data rows of a written sheet that hold a cell with something other than blanks.
RECURSIVE NonBlankRows(_)
NonBlankRows(seq) ==
    IF seq = <<>> THEN <<>>
    ELSE IF \E c \in 1..Len(Head(seq)) : \E i \in 1..Len(Head(seq)[c]) :
                Head(seq)[c][i] # " "
         THEN <<Head(seq)>> \o NonBlankRows(Tail(seq))
         ELSE NonBlankRows(Tail(seq))

\* C9: fetchPublishedSheetRows returns one record per line after the header that has
\* a non-blank cell: a line of only delimiters and blanks gives no record, and a line
\* terminator at the very end of the text adds none.
C9_RecordsAreNonBlankLines ==
    (csvPhase = "done" /\ csvSrc.kind = "plain")
        => Len(csvRecords) = Len(NonBlankRows(Tail(csvSrc.table)))

\* C9 witness: a sheet with a blank line, a line with content and a terminator at
\* the end gave one record.
C9_Witness ==
    /\ csvPhase = "done"
    /\ csvSrc.kind = "plain"
    /\ csvSrc.trailing
    /\ Len(csvSrc.table) = 3
    /\ csvSrc.table[2] = << <<>>, <<" ">> >>
    /\ csvSrc.table[3] = << <<"a">>, <<>> >>
    /\ Len(csvRecords) = 1

\* The rows parseCsv has to return for a sheet written without quotes: the written
\* cells, and one row of one empty cell after a terminator at the end.
WrittenRows(src) ==
    IF src.trailing THEN Append(src.table, <<<<>>>>) ELSE src.table

\* C10 as stated: the rows of parseCsv and the values of the records built from them
\* are the written cells, blanks around them kept.
C10_RowsAndRecordsUntrimmed ==
    (csvPhase = "done" /\ csvSrc.kind = "plain") =>
        /\ csvRows = WrittenRows(csvSrc)
        /\ LET kept == NonBlankRows(Tail(csvSrc.table))
           IN  \A r \in 1..Len(csvRecords) :
                 \A c \in 1..Len(kept[r]) :
                    CleanHeader(csvSrc.table[1][c]) # <<>> =>
                       csvRecords[r][CleanHeader(csvSrc.table[1][c])] = kept[r][c]

\* The text of a plain cell without the blanks around it.
RECURSIVE Unblank(_)
Unblank(cell) ==
    IF cell # <<>> /\ Head(cell) = " " THEN Unblank(Tail(cell))
    ELSE IF cell # <<>> /\ cell[Len(cell)] = " "
         THEN Unblank(SubSeq(cell, 1, Len(cell) - 1))
    ELSE cell

\* C10 amended: the rows of parseCsv are the written cells with the blanks around
\* them kept; the records fetchPublishedSheetRows builds hold each cell trimmed.
C10_RowsUntrimmedRecordsTrimmed ==
    (csvPhase = "done" /\ csvSrc.kind = "plain") =>
        /\ csvRows = WrittenRows(csvSrc)
        /\ LET kept == NonBlankRows(Tail(csvSrc.table))
           IN  \A r \in 1..Len(csvRecords) :
                 \A c \in 1..Len(kept[r]) :
                    CleanHeader(csvSrc.table[1][c]) # <<>> =>
                       csvRecords[r][CleanHeader(csvSrc.table[1][c])]
                          = Unblank(kept[r][c])

\* C10 witness: the cell " a " came out of parseCsv as " a " and is "a" in the record.
C10_Witness ==
    /\ csvPhase = "done"
    /\ csvSrc.kind = "plain"
    /\ csvSrc.table = << << <<"h">>, <<"k">> >>, << <<" ", "a", " ">>, <<>> >> >>
    /\ csvRows[2][1] = <<" ", "a", " ">>
    /\ csvRecords[1][<<"h">>] = <<"a">>

\* The number of places of a text that hold one of the characters of `chars`.
CountOf(text, chars) == Cardinality({i \in 1..Len(text) : text[i] \in chars})

\* The line terminators of a text without quotes: every CR and every LF, but a CR
\* with the LF right after it as one.
Terminators(text) ==
    CountOf(text, {"\r", "\n"})
    - Cardinality({i \in 1..(Len(text) - 1) : text[i] = "\r" /\ text[i + 1] = "\n"})

\* The number of cells of all rows.
RECURSIVE CellCount(_)
CellCount(table) ==
    IF table = <<>> THEN 0 ELSE Len(Head(table)) + CellCount(Tail(table))

\* C23: in parseCsv, outside quotes each of LF, CR and CR LF ends the current cell
\* and the current row exactly once (CR LF counts as a single terminator), while a
\* comma, LF or CR inside quotes is appended literally to the current cell and ends
\* neither a cell nor a row.
C23_TerminatorsOnceQuotedLiteral ==
    csvPhase = "done" =>
        /\ CountOf(csvText, {"\""}) = 0 =>
              /\ Len(csvRows) = 1 + Terminators(csvText)
              /\ CellCount(csvRows) = Len(csvRows) + CountOf(csvText, {","})
        /\ csvSrc.kind = "quoted" =>
              /\ Len(csvRows) = 1
              /\ Len(csvRows[1]) = Len(csvSrc.table[1])
              /\ \A c \in 1..Len(csvRows[1]) :
                    /\ csvRows[1][c] = csvSrc.table[1][c]
                    /\ CountOf(csvRows[1][c], {",", "\r", "\n"})
                          = CountOf(csvSrc.table[1][c], {",", "\r", "\n"})

\* A sheet of two lines joined by CR LF and ended by CR LF has been parsed: two rows
\* and the row of one empty cell after the last terminator.
C23_Witness ==
    /\ csvPhase = "done"
    /\ csvSrc.kind = "plain"
    /\ csvSrc.lineEnd = <<"\r", "\n">>
    /\ csvSrc.trailing
    /\ Len(csvSrc.table) = 2
    /\ Len(csvRows) = 3

(***************************************************************************)
(* Count distributions                                                     *)
(*                                                                         *)
(* `counts` is a plain JavaScript object used as a map.  It is modelled as *)
(* the sequence of its [name, value] properties in creation order;         *)
(* Object.entries and Object.values list the array-index keys first, in    *)
(* ascending numeric order, and then the other keys in creation order.     *)
(* Array.prototype.sort is stable (ECMAScript 2019).                       *)
(***************************************************************************)
DigitValue == [d \in Digits |->
    CASE d = "0" -> 0 [] d = "1" -> 1 [] d = "2" -> 2 [] d = "3" -> 3
      [] d = "4" -> 4 [] d = "5" -> 5 [] d = "6" -> 6 [] d = "7" -> 7
      [] d = "8" -> 8 [] OTHER -> 9]

\* a < b for two texts of digits of one length.
RECURSIVE DigitsLess(_, _)
DigitsLess(a, b) ==
    IF a = <<>> THEN FALSE
    ELSE IF DigitValue[Head(a)] # DigitValue[Head(b)]
         THEN DigitValue[Head(a)] < DigitValue[Head(b)]
    ELSE DigitsLess(Tail(a), Tail(b))

\* a < b for two canonical numeric strings (no leading zero).
NumericLess(a, b) ==
    Len(a) < Len(b) \/ (Len(a) = Len(b) /\ DigitsLess(a, b))

\* 2^32 - 1, the first number that is no array index.
IndexLimit == <<"4", "2", "9", "4", "9", "6", "7", "2", "9", "5">>

\* Whether a property key is an array index: a canonical numeric string below 2^32 - 1.
IsArrayIndex(key) ==
    /\ key # <<>>
    /\ AllDigits(key)
    /\ (Len(key) = 1 \/ key[1] # "0")
    /\ NumericLess(key, IndexLimit)

\* The accessor property every object literal inherits from Object.prototype.
ProtoKey == <<"_", "_", "p", "r", "o", "t", "o", "_", "_">>

\* acc[key] = (acc[key] || 0) + 1 on an accumulator that starts as {}.  For the key
\* "__proto__" the read gives Object.prototype, which is truthy, the sum is the text
\* "[object Object]1", and the inherited setter ignores a value that is neither an
\* object nor null: the accumulator is left as it was.  (The other names inherited
\* from Object.prototype, such as "constructor", are not among the keys of the input
\* sets below.)
Increment(counts, key) ==
    IF key = ProtoKey THEN counts
    ELSE IF \E i \in 1..Len(counts) : counts[i].name = key
    THEN [i \in 1..Len(counts) |->
            IF counts[i].name = key
            THEN [name |-> key, value |-> counts[i].value + 1]
            ELSE counts[i]]
    ELSE Append(counts, [name |-> key, value |-> 1])

\* keys.reduce((acc, key) => { acc[key] = (acc[key] || 0) + 1; return acc }, {})
RECURSIVE CountKeys(_)
CountKeys(keys) ==
    IF keys = <<>> THEN <<>>
    ELSE Increment(CountKeys(SubSeq(keys, 1, Len(keys) - 1)), keys[Len(keys)])

\* The elements of seq for which keep[i] holds.
RECURSIVE Select(_, _)
Select(seq, keep) ==
    IF seq = <<>> THEN <<>>
    ELSE (IF keep[1] THEN <<seq[1]>> ELSE <<>>) \o Select(Tail(seq), Tail(keep))

\* The index properties of an object in ascending numeric order.
RECURSIVE AscendingIndexKeys(_)
AscendingIndexKeys(props) ==
    IF props = <<>> THEN <<>>
    ELSE LET least == CHOOSE i \in 1..Len(props) :
                        \A j \in 1..Len(props) :
                           ~NumericLess(props[j].name, props[i].name)
         IN  <<props[least]>>
             \o AscendingIndexKeys(Select(props, [j \in 1..Len(props) |-> j # least]))

\* Object.entries(counts).map(([name, value]) => ({ name, value }))
Entries(counts) ==
    LET isIndex == [i \in 1..Len(counts) |-> IsArrayIndex(counts[i].name)]
        notIndex == [i \in 1..Len(counts) |-> ~isIndex[i]]
    IN  AscendingIndexKeys(Select(counts, isIndex)) \o Select(counts, notIndex)

\* x put into a list sorted by descending value, after every element that does not
\* sort after it.
RECURSIVE InsertByValue(_, _)
InsertByValue(sorted, x) ==
    IF sorted = <<>> THEN <<x>>
    ELSE IF sorted[Len(sorted)].value >= x.value THEN Append(sorted, x)
    ELSE Append(InsertByValue(SubSeq(sorted, 1, Len(sorted) - 1), x),
                sorted[Len(sorted)])

\* .sort((a, b) => b.value - a.value)
RECURSIVE SortByValueDesc(_)
SortByValueDesc(list) ==
    IF list = <<>> THEN <<>>
    ELSE InsertByValue(SortByValueDesc(SubSeq(list, 1, Len(list) - 1)),
                       list[Len(list)])

\* TopicsPage.topicDistribution (OverviewPage.topicDistribution and
\* mainframeDistribution, DashboardLayout.topicData have the same body).
topicDistribution(filteredRows) ==
    SortByValueDesc(Entries(CountKeys(
        [i \in 1..Len(filteredRows) |-> filteredRows[i].topic])))

\* SpokespersonPage.spokespersonDistribution: rows without spokesperson are skipped.
spokespersonDistribution(filteredRows) ==
    LET named == Select(filteredRows,
                        [i \in 1..Len(filteredRows) |->
                            filteredRows[i].spokesperson # <<>>])
    IN  SortByValueDesc(Entries(CountKeys(
            [i \in 1..Len(named) |-> named[i].spokesperson])))

\* spokespersonMap of App.tsx; the empty text stands for undefined.
spokespersonMap(company) ==
    CASE company = "Aurora Mobile" -> <<"Lina Hartono">>
      [] company = "Nimbus Energy" -> <<"Rafael Suryo">>
      [] company = "Keystone Health" -> <<"Dr. Maya Putri">>
      [] OTHER -> <<>>

\* DashboardLayout.spokespersonData: Object.values(rows) of spokespersonTable mapped
\* to { name, value: total }.
spokespersonData(filteredArticles) ==
    LET names == [i \in 1..Len(filteredArticles) |->
                     spokespersonMap(filteredArticles[i].company)]
        known == Select(names, [i \in 1..Len(names) |-> names[i] # <<>>])
    IN  Entries(CountKeys(known))

(***************************************************************************)
(* Inputs of the aggregation                                               *)
(***************************************************************************)
\* Most rows in view.
MaxAggRows == 3

TopicKeys == {<<"A">>, <<"2", "0", "2", "4">>, ProtoKey}
SpokespersonKeys == {<<>>, <<"B">>, <<"7">>}
Companies == {"Aurora Mobile", "Nimbus Energy"}

\* A row in view: topic and spokesperson as the page normalizers leave them, company
\* as an article of DashboardLayout carries it.
AggRowSet == [topic : TopicKeys, spokesperson : SpokespersonKeys, company : Companies]

AggInit ==
    /\ PageIdle /\ DateIdle /\ CsvIdle /\ MapIdle
    /\ aggRows \in SeqsUpTo(AggRowSet, MaxAggRows)
    /\ aggOut = NoAggOut
    /\ aggPhase = "rows"

\* A render recomputes the memoized distributions from the rows in view.
ComputeDistributions ==
    /\ aggPhase = "rows"
    /\ aggOut' = [topic |-> topicDistribution(aggRows),
                  spokesperson |-> spokespersonDistribution(aggRows),
                  layoutSpokesperson |-> spokespersonData(aggRows)]
    /\ aggPhase' = "done"
    /\ UNCHANGED <<aggRows, pageVars, dateVars, csvVars, mapVars>>

AggNext == ComputeDistributions

SpecAgg == AggInit /\ [][AggNext]_vars

(***************************************************************************)
(* Claims about the aggregation (checked under SpecAgg)                    *)
(***************************************************************************)
\* Position of the first row whose key is name.
FirstSeen(keys, name) ==
    CHOOSE i \in 1..Len(keys) :
        keys[i] = name /\ \A j \in 1..(i - 1) : keys[j] # name

\* Entries of equal value stand in the order in which their keys were first seen.
TiesInFirstSeenOrder(list, keys) ==
    \A i, j \in 1..Len(list) :
        (i < j /\ list[i].value = list[j].value)
            => FirstSeen(keys, list[i].name) < FirstSeen(keys, list[j].name)

\* C3: in every count distribution two keys with equal counts appear in the order in
\* which they were first encountered in the input, whatever the key texts are
\* (keys that look like non-negative integers included).
C3_TiesKeepFirstSeenOrder ==
    aggPhase = "done" =>
        /\ TiesInFirstSeenOrder(aggOut.topic,
                                [i \in 1..Len(aggRows) |-> aggRows[i].topic])
        /\ TiesInFirstSeenOrder(aggOut.spokesperson,
                                [i \in 1..Len(aggRows) |-> aggRows[i].spokesperson])

NonIncreasing(list) ==
    \A i \in 1..(Len(list) - 1) : list[i].value >= list[i + 1].value

\* C4: every list of {name, value} pairs the aggregation code produces, on the pages
\* and in the dashboard layout, is ordered by non-increasing value.
C4_ListsNonIncreasing ==
    aggPhase = "done" =>
        /\ NonIncreasing(aggOut.topic)
        /\ NonIncreasing(aggOut.spokesperson)
        /\ NonIncreasing(aggOut.layoutSpokesperson)

\* Sum of the values of a distribution.
RECURSIVE TotalValue(_)
TotalValue(list) ==
    IF list = <<>> THEN 0 ELSE list[1].value + TotalValue(Tail(list))

\* Every bucket holds at least one row and no name stands twice.
BucketsDistinctNonEmpty(list) ==
    /\ \A i \in 1..Len(list) : list[i].value >= 1
    /\ \A i, j \in 1..Len(list) : list[i].name = list[j].name => i = j

\* C29: aggregation conserves records: the values of the topic distribution sum
\* to the number of filtered rows, the values of the spokesperson distribution sum to
\* the number of filtered rows with a non-empty spokesperson, every bucket value is
\* at least 1, and each bucket name appears once.
C29_AggregationConservesRecords ==
    aggPhase = "done" =>
        /\ TotalValue(aggOut.topic) = Len(aggRows)
        /\ TotalValue(aggOut.spokesperson)
              = Cardinality({i \in 1..Len(aggRows) : aggRows[i].spokesperson # <<>>})
        /\ BucketsDistinctNonEmpty(aggOut.topic)
        /\ BucketsDistinctNonEmpty(aggOut.spokesperson)

(***************************************************************************)
(* Fetch and timer lifecycle of a data page                                *)
(*                                                                         *)
(* OverviewPage, ArticlesPage, TopicsPage, SpokespersonPage and            *)
(* ReportsPage share fetchSheet, its useEffect and the loading / error /   *)
(* rows rendering; the model follows OverviewPage (types/dashboard.ts).    *)
(***************************************************************************)
\* Most fetches started during the life of a page.
MaxFetches == 3

\* The message of the Error fetchPublishedSheetRows throws when !response.ok.
StatusMessage == "Gagal mengambil data Google Sheet."

\* err.message when fetch itself rejects (no response at all).
NetworkMessages == {"Failed to fetch"}

\* err.message by the cause of the failure.
MessagesOf(cause) == IF cause = "status" THEN {StatusMessage} ELSE NetworkMessages

ErrorMessages == {StatusMessage} \cup NetworkMessages

\* The mapped rows a successful fetch can set (identified by the sheet line).
Sheets == {<<>>, <<"r1">>, <<"r1", "r2">>}

\* What the page renders: `if (loading)`, then `if (error)`, then the data.
View ==
    IF loading THEN "loading"
    ELSE IF error # NoError THEN "error"
    ELSE "rows"

PageInit == PageIdle /\ DateIdle /\ AggIdle /\ CsvIdle /\ MapIdle

\* A fetchSheet that sets the loading flag whatever its argument is.
StartFetch_alwaysLoading(showLoading) ==
    /\ nextId <= MaxFetches
    /\ loading' = TRUE
    /\ error' = NoError
    /\ errorSource' = "none"
    /\ errorCause' = "none"
    /\ pending' = pending \cup {[id |-> nextId, fg |-> showLoading]}
    /\ nextId' = nextId + 1
    /\ requests' = requests + 1

\* fetchSheet(showLoading) up to its await: setLoading(true) when showLoading,
\* setError(null), and fetchPublishedSheetRows has sent its one request.
StartFetch(showLoading) ==
    /\ nextId <= MaxFetches
    /\ loading' = (IF showLoading THEN TRUE ELSE loading)
    /\ error' = NoError
    /\ errorSource' = "none"
    /\ errorCause' = "none"
    /\ pending' = pending \cup {[id |-> nextId, fg |-> showLoading]}
    /\ nextId' = nextId + 1
    /\ requests' = requests + 1

\* useEffect(() => { fetchSheet(); setInterval(...) }, []) on mount.
Mount ==
    /\ ~mounted /\ nextId = 1
    /\ mounted' = TRUE
    /\ timerOn' = TRUE
    /\ StartFetch(TRUE)
    /\ lastCall' = "mount"
    /\ UNCHANGED <<rows, lastSettled, everSucceeded, failedAt,
                   dateVars, aggVars, csvVars, mapVars>>

\* The interval fires: fetchSheet(false).
TimerTick ==
    /\ timerOn
    /\ StartFetch(FALSE)
    /\ lastCall' = "timer"
    /\ UNCHANGED <<mounted, timerOn, rows, lastSettled, everSucceeded, failedAt,
                   dateVars, aggVars, csvVars, mapVars>>

\* The "Refresh data" button of the data view: onClick={fetchSheet}, whose argument
\* (the click event) is truthy.
ManualRefresh ==
    /\ mounted /\ View = "rows"
    /\ StartFetch(TRUE)
    /\ lastCall' = "refresh"
    /\ UNCHANGED <<mounted, timerOn, rows, lastSettled, everSucceeded, failedAt,
                   dateVars, aggVars, csvVars, mapVars>>

\* The "Coba lagi" button of the error view: window.location.reload(). The document
\* is loaded anew: the requests in flight and the timer go with the old document,
\* and the page mounts again with its initial state, timer and first fetch.
Reload ==
    /\ mounted /\ View = "error"
    /\ nextId <= MaxFetches
    /\ mounted' = TRUE
    /\ timerOn' = TRUE
    /\ loading' = TRUE
    /\ error' = NoError
    /\ errorSource' = "none"
    /\ errorCause' = "none"
    /\ rows' = <<>>
    /\ pending' = {[id |-> nextId, fg |-> TRUE]}
    /\ nextId' = nextId + 1
    /\ requests' = requests + 1
    /\ lastSettled' = NoFetch
    /\ everSucceeded' = FALSE
    /\ failedAt' = 0
    /\ lastCall' = "reload"
    /\ UNCHANGED <<dateVars, aggVars, csvVars, mapVars>>

\* A resolution that adds the fetched rows to the rows the page already holds.
FetchResolve_merging ==
    \E f \in pending, sheet \in Sheets :
        /\ pending' = pending \ {f}
        /\ rows' = rows \o sheet
        /\ loading' = (IF f.fg THEN FALSE ELSE loading)
        /\ lastSettled' = [kind |-> IF f.fg THEN "fg" ELSE "bg", ok |-> TRUE]
        /\ everSucceeded' = TRUE
        /\ UNCHANGED <<mounted, timerOn, error, errorSource, nextId,
                       requests, errorCause, lastCall, failedAt,
                       dateVars, aggVars, csvVars, mapVars>>

\* A request resolves with a sheet: setRows(mapped), and setLoading(false) in the
\* finally block when showLoading.
FetchResolve ==
    \E f \in pending, sheet \in Sheets :
        /\ pending' = pending \ {f}
        /\ rows' = sheet
        /\ loading' = (IF f.fg THEN FALSE ELSE loading)
        /\ lastSettled' = [kind |-> IF f.fg THEN "fg" ELSE "bg", ok |-> TRUE]
        /\ everSucceeded' = TRUE
        /\ UNCHANGED <<mounted, timerOn, error, errorSource, nextId,
                       requests, errorCause, lastCall, failedAt,
                       dateVars, aggVars, csvVars, mapVars>>

\* A failure after which fetchPublishedSheetRows sends the request once more by
\* itself.
FetchReject_retrying ==
    \E f \in pending, cause \in {"status", "network"} :
        /\ nextId <= MaxFetches
        /\ pending' = (pending \ {f}) \cup {[id |-> nextId, fg |-> f.fg]}
        /\ nextId' = nextId + 1
        /\ requests' = requests + 1
        /\ UNCHANGED <<mounted, timerOn, rows, everSucceeded, loading, error,
                       errorSource, errorCause, lastSettled, lastCall, failedAt,
                       dateVars, aggVars, csvVars, mapVars>>

\* A request fails (!response.ok or a network error): fetchPublishedSheetRows throws
\* without another request, setError(err.message) in the catch block, and
\* setLoading(false) in the finally block when showLoading.
FetchReject ==
    \E f \in pending, cause \in {"status", "network"} :
      \E message \in MessagesOf(cause) :
        /\ pending' = pending \ {f}
        /\ error' = message
        /\ errorSource' = (IF f.fg THEN "fg" ELSE "bg")
        /\ errorCause' = cause
        /\ loading' = (IF f.fg THEN FALSE ELSE loading)
        /\ lastSettled' = [kind |-> IF f.fg THEN "fg" ELSE "bg", ok |-> FALSE]
        /\ failedAt' = (IF failedAt = 0 THEN nextId ELSE failedAt)
        /\ UNCHANGED <<mounted, timerOn, rows, nextId, everSucceeded,
                       requests, lastCall,
                       dateVars, aggVars, csvVars, mapVars>>

\* A cleanup that leaves the interval running.
Unmount_keepsTimer ==
    /\ mounted
    /\ mounted' = FALSE
    /\ UNCHANGED <<timerOn, loading, error, errorSource, rows, pending, nextId,
                   lastSettled, everSucceeded, requests, errorCause, lastCall,
                   failedAt, dateVars, aggVars, csvVars, mapVars>>

\* The cleanup of the effect: clearInterval(intervalId). Requests in flight are not
\* aborted.
Unmount ==
    /\ mounted
    /\ mounted' = FALSE
    /\ timerOn' = FALSE
    /\ UNCHANGED <<loading, error, errorSource, rows, pending, nextId, lastSettled,
                   everSucceeded, requests, errorCause, lastCall, failedAt,
                   dateVars, aggVars, csvVars, mapVars>>

PageNext ==
    \/ Mount
    \/ TimerTick
    \/ ManualRefresh
    \/ Reload
    \/ FetchResolve
    \/ FetchReject
    \/ Unmount

SpecPage == PageInit /\ [][PageNext]_vars

(***************************************************************************)
(* Claims about the page lifecycle (checked under SpecPage)                *)
(***************************************************************************)

\* C1: if a background (timer-driven) refresh fails after an earlier fetch succeeded,
\* the previously fetched rows remain displayed; the blocking error view is shown
\* only when a foreground (initial or manual) load fails.
C1_BackgroundFailureKeepsRowsShown ==
    mounted =>
        /\ (View = "error" => errorSource = "fg")
        /\ (/\ lastSettled = [kind |-> "bg", ok |-> FALSE]
            /\ everSucceeded
            /\ ~loading
            /\ pending = {}) => View = "rows"

\* A step in which fetchPublishedSheetRows is called sends exactly one request.
OneGetPerCall == nextId' # nextId => requests' = requests + 1

\* A request is sent only in a step in which the page calls fetchSheet, and a failure
\* of the response status leaves the fixed user-facing message in the error.
NoInlineRetry ==
    /\ requests' # requests => (Mount \/ TimerTick \/ ManualRefresh \/ Reload)
    /\ errorCause' = "status" => error' = StatusMessage

\* A request sent after a fetch of the page has failed.
RetryStep == failedAt # 0 /\ requests' # requests

\* C17 (as stated): fetchPublishedSheetRows issues exactly one HTTP GET per call and,
\* when the response status is not successful, fails with an error carrying a
\* user-facing message without retrying inline; a retry happens only through the
\* caller's next timer tick.
C17_RetryOnlyByTimerTick ==
    [][/\ OneGetPerCall
       /\ NoInlineRetry
       /\ RetryStep => TimerTick]_vars

\* C17 (amended): fetchPublishedSheetRows issues exactly one HTTP GET per call and,
\* when the response status is not successful, fails with an error carrying a
\* user-facing message without retrying inline; a retry happens only when the caller
\* calls again: at its next timer tick, on the manual "Refresh data" action, or when
\* the page is reloaded from the error view.
C17_RetryOnlyByNewCall ==
    [][/\ OneGetPerCall
       /\ NoInlineRetry
       /\ RetryStep => (TimerTick \/ ManualRefresh \/ Reload)]_vars

\* The failed first load has been retried by reloading the page from the error view:
\* the second request is in flight.
C17_Witness ==
    /\ mounted
    /\ lastCall = "reload"
    /\ requests = 2
    /\ pending = {[id |-> 2, fg |-> TRUE]}
    /\ error = NoError

\* C18: every failure state is recoverable while the view is mounted: after any
\* failed fetch the repeating timer keeps firing, and once the fetch of a later tick
\* (one started after the failure) succeeds, the error is cleared and the newly
\* fetched rows are the page's rows.
C18_LaterTickSuccessClearsError ==
    [][/\ mounted' => timerOn'
       /\ \A f \in pending, sheet \in Sheets :
             (/\ mounted
              /\ failedAt # 0 /\ ~f.fg /\ f.id >= failedAt
              /\ pending' = pending \ {f}
              /\ lastSettled' = [kind |-> "bg", ok |-> TRUE]
              /\ rows' = sheet)
             => error' = NoError]_vars

\* C19: after a view is torn down, no result of a fetch started before the teardown
\* is applied to the state of that view.
C19_NoWriteAfterDispose ==
    [][(~mounted /\ nextId > 1) => UNCHANGED <<rows, error, loading>>]_vars

\* C20: the repeating timer of a page is cleared when the page is torn down: after
\* the teardown no new fetch is started for that page, and the page has a timer
\* exactly while it is mounted.
C20_TimerClearedOnTeardown ==
    [][/\ mounted' <=> timerOn'
       /\ (~mounted /\ nextId > 1) =>
             /\ requests' = requests
             /\ nextId' = nextId
             /\ pending' \subseteq pending]_vars

\* The page has been torn down while a request was in flight: the timer is off.
C20_Witness ==
    /\ ~mounted /\ nextId > 1
    /\ ~timerOn
    /\ pending # {}

C27_NoErrorAfterLastSuccess ==
    (mounted /\ pending = {} /\ lastSettled.ok) => error = NoError

\* A fetch of the page is in flight with showLoading set.
ForegroundInFlight == \E f \in pending : f.fg

\* C28: the loading flag of a page is true exactly while a foreground fetch (initial
\* load or manual refresh) is in flight: a background timer refresh never changes
\* it, neither when it starts nor when it settles, and the flag becomes false when
\* the foreground fetch settles, whether it succeeds or fails.
C28_LoadingIffForegroundFetch ==
    [][/\ mounted' => (loading' <=> ForegroundInFlight')
       /\ TimerTick => loading' = loading
       /\ \A f \in pending :
             (mounted /\ pending' = pending \ {f} /\ nextId' = nextId)
             => loading' = (IF f.fg THEN FALSE ELSE loading)]_vars

\* The first load has failed and the flag is down while the fetch of a timer tick
\* is in flight.
C28_Witness ==
    /\ mounted
    /\ ~loading
    /\ lastSettled = [kind |-> "fg", ok |-> FALSE]
    /\ pending = {[id |-> 2, fg |-> FALSE]}

(***************************************************************************)
(* mapSentiment (one copy per page; ArticlesPage returns the English       *)
(* labels, the other pages the Indonesian ones)                            *)
(***************************************************************************)
LowerCase == <<"a", "b", "c", "d", "e", "f", "g", "h", "i", "j", "k", "l", "m",
               "n", "o", "p", "q", "r", "s", "t", "u", "v", "w", "x", "y", "z">>
UpperCase == <<"A", "B", "C", "D", "E", "F", "G", "H", "I", "J", "K", "L", "M",
               "N", "O", "P", "Q", "R", "S", "T", "U", "V", "W", "X", "Y", "Z">>

LetterIndex(table, c) == CHOOSE i \in 1..Len(table) : table[i] = c

IsLetterOf(table, c) == \E i \in 1..Len(table) : table[i] = c

\* String.prototype.toLowerCase (on the modelled alphabet)
toLowerCase(s) ==
    [i \in 1..Len(s) |->
        IF IsLetterOf(UpperCase, s[i]) THEN LowerCase[LetterIndex(UpperCase, s[i])]
        ELSE s[i]]

\* String.prototype.toUpperCase (on the modelled alphabet)
toUpperCase(s) ==
    [i \in 1..Len(s) |->
        IF IsLetterOf(LowerCase, s[i]) THEN UpperCase[LetterIndex(LowerCase, s[i])]
        ELSE s[i]]

\* String.prototype.includes
includes(s, sub) ==
    \E i \in 0..(Len(s) - Len(sub)) : SubSeq(s, i + 1, i + Len(sub)) = sub

positif  == <<"p", "o", "s", "i", "t", "i", "f">>
positive == <<"p", "o", "s", "i", "t", "i", "v", "e">>
negatif  == <<"n", "e", "g", "a", "t", "i", "f">>
negative == <<"n", "e", "g", "a", "t", "i", "v", "e">>

\* The pages whose rows carry a sentiment.
SentimentPages == {"Overview", "Articles", "Spokesperson", "Topics"}

\* The three labels a page's mapSentiment returns.
SentimentLabels(page) ==
    IF page = "Articles"
    THEN [positive |-> "Positive", neutral |-> "Neutral", negative |-> "Negative"]
    ELSE [positive |-> "Positif", neutral |-> "Netral", negative |-> "Negatif"]

\* mapSentiment that compares the text as it is, without lowercasing it.
mapSentiment_caseSensitive(page, value) ==
    IF includes(value, positif) \/ includes(value, positive)
    THEN SentimentLabels(page).positive
    ELSE IF includes(value, negatif) \/ includes(value, negative)
    THEN SentimentLabels(page).negative
    ELSE SentimentLabels(page).neutral

\* mapSentiment(value) of a page
mapSentiment(page, value) ==
    LET lower == toLowerCase(value)
    IN  IF includes(lower, positif) \/ includes(lower, positive)
        THEN SentimentLabels(page).positive
        ELSE IF includes(lower, negatif) \/ includes(lower, negative)
        THEN SentimentLabels(page).negative
        ELSE SentimentLabels(page).neutral

(***************************************************************************)
(* Inputs of mapSentiment: tone texts written from one or two words        *)
(***************************************************************************)
PositiveWords == {positif, positive}
NegativeWords == {negatif, negative}
\* Words that are no sentiment vocabulary (also the empty text and a truncated word).
OtherWords == {<<>>,
               <<"n", "e", "t", "r", "a", "l">>,
               <<"p", "o", "s", "i", "t">>,
               <<"n", "e", "g", "a", "t", "i", "v">>}
ToneWords == PositiveWords \cup NegativeWords \cup OtherWords

\* Text put directly before the first word.
TonePrefixes == {<<>>, <<" ">>, <<"x">>}

Capitalize(s) == IF s = <<>> THEN s ELSE toUpperCase(<<Head(s)>>) \o Tail(s)

LetterForm(form, s) ==
    CASE form = "upper" -> toUpperCase(s)
      [] form = "capital" -> Capitalize(s)
      [] OTHER -> s

ToneSources ==
    [pre : TonePrefixes, first : ToneWords, second : ToneWords,
     form : {"lower", "upper", "capital"}]

\* The tone text of a source: the second word, when there is one, follows a blank.
ToneTextOf(src) ==
    src.pre \o LetterForm(src.form, src.first)
            \o (IF src.second = <<>> THEN <<>>
                ELSE <<" ">> \o LetterForm(src.form, src.second))

ToneInit ==
    /\ PageIdle /\ DateIdle /\ AggIdle /\ CsvIdle /\ FieldIdle /\ OverviewIdle
    /\ ShareIdle /\ BreakdownIdle /\ PagingIdle /\ FilterIdle
    /\ toneSrc \in ToneSources
    /\ tonePage \in SentimentPages
    /\ toneIn = ToneTextOf(toneSrc)
    /\ toneOut = "none"
    /\ tonePhase = "input"

\* A page normalizer calls mapSentiment on the tone text of a row.
MapSentimentCall ==
    /\ tonePhase = "input"
    /\ toneOut' = mapSentiment(tonePage, toneIn)
    /\ tonePhase' = "done"
    /\ UNCHANGED <<toneSrc, tonePage, toneIn, pageVars, dateVars, aggVars, csvVars,
                   fieldVars, overviewVars, shareVars,
                   breakdownVars, pagingVars,
                   filterVars>>

ToneNext == MapSentimentCall

SpecTone == ToneInit /\ [][ToneNext]_vars

(***************************************************************************)
(* Claims about mapSentiment (checked under SpecTone)                      *)
(***************************************************************************)
\* The words a tone source was written from.
WordsOf(src) == {src.first, src.second}

\* C11: sentiment classification is total and three-valued on every page: positive
\* when the tone text holds "positif" or "positive" in any letter case, otherwise
\* negative when it holds "negatif" or "negative", otherwise (the empty text too)
\* neutral; the label is always exactly one of the page's three labels.
C11_SentimentTotalThreeValued ==
    tonePhase = "done" =>
        LET labels == SentimentLabels(tonePage)
        IN  /\ toneOut \in {labels.positive, labels.neutral, labels.negative}
            /\ toneOut = (IF WordsOf(toneSrc) \cap PositiveWords # {}
                          THEN labels.positive
                          ELSE IF WordsOf(toneSrc) \cap NegativeWords # {}
                          THEN labels.negative
                          ELSE labels.neutral)

\* An upper-case tone text holding a negative word before a positive one, inside a
\* longer text, has been classified positive.
C11_Witness ==
    /\ tonePhase = "done"
    /\ toneSrc.form = "upper" /\ toneSrc.pre = <<"x">>
    /\ toneSrc.first \in NegativeWords /\ toneSrc.second \in PositiveWords
    /\ toneOut = SentimentLabels(tonePage).positive

(***************************************************************************)
(* The row normalizer of a page: rows.map((row, index) => { ... })         *)
(*                                                                         *)
(* A RawRow and the page's normalizedRow are plain objects; each is        *)
(* modelled as the sequence of its [name, value] properties in creation    *)
(* order, listed by Object.entries / Object.keys as Entries lists them.    *)
(***************************************************************************)
\* The value of a property an object does not have (undefined).
NoProperty == <<"undefined">>

\* obj[name] = value
SetProperty(props, name, value) ==
    IF \E i \in 1..Len(props) : props[i].name = name
    THEN [i \in 1..Len(props) |->
            IF props[i].name = name THEN [name |-> name, value |-> value]
            ELSE props[i]]
    ELSE Append(props, [name |-> name, value |-> value])

\* obj[name]
GetProperty(props, name) ==
    IF \E i \in 1..Len(props) : props[i].name = name
    THEN props[CHOOSE i \in 1..Len(props) : props[i].name = name].value
    ELSE NoProperty

\* a || b on strings: the empty string is the only falsy one.
Or(a, b) == IF a # <<>> THEN a ELSE b

\* a || b || ... || ""
RECURSIVE FirstTruthy(_)
FirstTruthy(values) ==
    IF values = <<>> THEN <<>>
    ELSE Or(Head(values), FirstTruthy(Tail(values)))

\* Object.entries(row).forEach(([key, value]) => { if (!key) return;
\*     normalizedRow[key.trim().toUpperCase()] = String(value ?? "") })
RECURSIVE NormalizeEntries(_)
NormalizeEntries(entries) ==
    IF entries = <<>> THEN <<>>
    ELSE LET before == NormalizeEntries(SubSeq(entries, 1, Len(entries) - 1))
             entry == entries[Len(entries)]
         IN  IF entry.name = <<>> THEN before
             ELSE SetProperty(before, toUpperCase(Trim(entry.name)), entry.value)

\* normalizedRow of OverviewPage, ArticlesPage, SpokespersonPage and TopicsPage
normalizedRow(row) == NormalizeEntries(Entries(row))

\* const getValue = (column) => normalizedRow[column] ?? ""
getValue(nrow, column) ==
    IF GetProperty(nrow, column) = NoProperty THEN <<>> ELSE GetProperty(nrow, column)

\* .replace(/\s+/g, " ") and .replace(/[_\-]+/g, " "): every run of characters of
\* `set` becomes one blank.
RECURSIVE ReplaceRuns(_, _)
ReplaceRuns(s, set) ==
    IF s = <<>> THEN <<>>
    ELSE IF Head(s) \in set
         THEN IF Len(s) > 1 /\ s[2] \in set
              THEN ReplaceRuns(Tail(s), set)
              ELSE <<" ">> \o ReplaceRuns(Tail(s), set)
    ELSE <<Head(s)>> \o ReplaceRuns(Tail(s), set)

\* .replace(/\s+/g, "")
RECURSIVE RemoveWhiteSpace(_)
RemoveWhiteSpace(s) ==
    IF s = <<>> THEN <<>>
    ELSE (IF Head(s) \in WhiteSpace THEN <<>> ELSE <<Head(s)>>)
         \o RemoveWhiteSpace(Tail(s))

\* ReportsPage: normalizeKey
normalizeKey(value) ==
    ReplaceRuns(ReplaceRuns(toUpperCase(Trim(value)), WhiteSpace), {"_", "-"})

\* ReportsPage: normalizedRow, holding every key in its normalized and its flat form
RECURSIVE NormalizeEntriesReports(_)
NormalizeEntriesReports(entries) ==
    IF entries = <<>> THEN <<>>
    ELSE LET before == NormalizeEntriesReports(SubSeq(entries, 1, Len(entries) - 1))
             entry == entries[Len(entries)]
             normalized == normalizeKey(entry.name)
             flat == RemoveWhiteSpace(normalized)
         IN  IF entry.name = <<>> THEN before
             ELSE SetProperty(SetProperty(before, normalized, entry.value),
                              flat, entry.value)

normalizedRowReports(row) == NormalizeEntriesReports(Entries(row))

\* ReportsPage: getValue
getValueReports(nrow, column) ==
    LET normalized == normalizeKey(column)
        flat == RemoveWhiteSpace(normalized)
    IN  IF GetProperty(nrow, normalized) # NoProperty THEN GetProperty(nrow, normalized)
        ELSE IF GetProperty(nrow, flat) # NoProperty THEN GetProperty(nrow, flat)
        ELSE <<>>

\* The decimal text of a small natural number.
RECURSIVE DecimalText(_)
DecimalText(n) ==
    LET digit == <<"0", "1", "2", "3", "4", "5", "6", "7", "8", "9">>[(n % 10) + 1]
    IN  IF n < 10 THEN <<digit>> ELSE DecimalText(n \div 10) \o <<digit>>

\* `row-${index + 1}`, index counted from 0
RowId(index) == <<"r", "o", "w", "-">> \o DecimalText(index + 1)

\* ArticlesPage: resolveMediaType
resolveMediaType(value) ==
    LET raw == Trim(value)
        lower == toLowerCase(raw)
    IN  IF raw = <<>> THEN <<"O", "n", "l", "i", "n", "e">>
        ELSE IF includes(lower, <<"c", "e", "t", "a", "k">>) \/ includes(lower, <<"p", "r", "i", "n", "t">>) THEN <<"C", "e", "t", "a", "k">>
        ELSE IF includes(lower, <<"o", "n", "l", "i", "n", "e">>) \/ includes(lower, <<"d", "i", "g", "i", "t", "a", "l">>) THEN <<"O", "n", "l", "i", "n", "e">>
        ELSE raw

\* ArticlesPage: resolveToneLabel
resolveToneLabel(tone, sentiment) ==
    IF Trim(tone) # <<>> THEN Trim(tone)
    ELSE IF sentiment = "Positive" THEN <<"P", "o", "s", "i", "t", "i", "f">>
    ELSE IF sentiment = "Negative" THEN <<"N", "e", "g", "a", "t", "i", "f">>
    ELSE <<"N", "e", "t", "r", "a", "l">>

\* The one-character string U+2014 (em dash).
EmDash == "U+2014"

\* A normalizeName that knows the placeholders in lower case only.
normalizeName_caseSensitive(value) ==
    LET trimmed == Trim(value)
    IN  IF trimmed = <<>> THEN <<>>
        ELSE IF trimmed \in {<<"-">>, <<EmDash>>, <<"n", "u", "l", "l">>, <<"n", "/", "a">>} THEN <<>>
        ELSE trimmed

\* SpokespersonPage: normalizeName
normalizeName(value) ==
    LET trimmed == Trim(value)
        lower == toLowerCase(trimmed)
    IN  IF trimmed = <<>> THEN <<>>
        ELSE IF lower \in {<<"-">>, <<EmDash>>, <<"n", "u", "l", "l">>, <<"n", "/", "a">>} THEN <<>>
        ELSE trimmed

\* ArticlesPage.fetchSheet: the row mapped from one record
ArticlesRow(row, index, parsed) ==
    LET nrow == normalizedRow(row)
        rawDate == getValue(nrow, <<"T", "A", "N", "G", "G", "A", "L">>)
        headline == Trim(FirstTruthy(<<getValue(nrow, <<"H", "E", "A", "D", "L", "I", "N", "E">>),
                                       getValue(nrow, <<"J", "U", "D", "U", "L">>)>>))
        media == Trim(getValue(nrow, <<"M", "E", "D", "I", "A">>))
        company == Trim(FirstTruthy(<<getValue(nrow, <<"C", "O", "M", "P", "A", "N", "Y">>),
                                      getValue(nrow, <<"P", "E", "R", "U", "S", "A", "H", "A", "A", "N">>)>>))
        url == Trim(FirstTruthy(<<getValue(nrow, <<"L", "I", "N", "K">>), getValue(nrow, <<"U", "R", "L">>)>>))
        toneRaw == FirstTruthy(<<getValue(nrow, <<"T", "O", "N", "E">>),
                                 getValue(nrow, <<"S", "E", "N", "T", "I", "M", "E", "N">>),
                                 getValue(nrow, <<"S", "E", "N", "T", "I", "M", "E", "N", "T">>)>>)
        mediaTypeValue == FirstTruthy(<<getValue(nrow, <<"J", "E", "N", "I", "S", " ", "M", "E", "D", "I", "A">>),
                                        getValue(nrow, <<"J", "E", "N", "I", "S", "_", "M", "E", "D", "I", "A">>),
                                        getValue(nrow, <<"M", "E", "D", "I", "A", " ", "T", "Y", "P", "E">>),
                                        getValue(nrow, <<"M", "E", "D", "I", "A", "_", "T", "Y", "P", "E">>)>>)
        spokesperson == FirstTruthy(<<getValue(nrow, <<"S", "P", "O", "K", "E", "S", "P", "E", "R", "S", "O", "N">>),
                                      getValue(nrow, <<"S", "P", "O", "K", "E", "P", "E", "R", "S", "O", "N">>),
                                      getValue(nrow, <<"S", "P", "O", "K", "E", "S", " ", "P", "E", "R", "S", "O", "N">>),
                                      getValue(nrow, <<"S", "P", "O", "K", "E", " ", "P", "E", "R", "S", "O", "N">>),
                                      getValue(nrow, <<"J", "U", "R", "U", " ", "B", "I", "C", "A", "R", "A">>),
                                      getValue(nrow, <<"J", "U", "R", "U", "_", "B", "I", "C", "A", "R", "A">>),
                                      getValue(nrow, <<"J", "U", "R", "U", "B", "I", "C", "A", "R", "A">>),
                                      getValue(nrow, <<"N", "A", "R", "A", "S", "U", "M", "B", "E", "R">>),
                                      getValue(nrow, <<"N", "A", "R", "A", " ", "S", "U", "M", "B", "E", "R">>)>>)
        mainframe == getValue(nrow, <<"M", "A", "I", "N", "F", "R", "A", "M", "E">>)
        topic == FirstTruthy(<<getValue(nrow, <<"T", "O", "P", "I", "K">>), getValue(nrow, <<"T", "O", "P", "I", "C">>)>>)
        sentiment == mapSentiment("Articles", toneRaw)
    IN  [id |-> Or(getValue(nrow, <<"I", "D">>), RowId(index)),
         title |-> Or(headline, <<"-">>),
         media |-> Or(media, <<"-">>),
         date |-> normalizeDate(rawDate, parsed),
         sentiment |-> sentiment,
         toneLabel |-> resolveToneLabel(toneRaw, sentiment),
         company |-> Or(company, <<"-">>),
         url |-> Or(url, <<"#">>),
         mediaType |-> resolveMediaType(mediaTypeValue),
         spokesperson |-> Or(Trim(spokesperson), <<"-">>),
         mainframe |-> Or(Trim(mainframe), <<"-">>),
         topic |-> Or(Trim(topic), <<"-">>)]

\* OverviewPage.fetchSheet: the row mapped from one record
OverviewRow(row, index, parsed) ==
    LET nrow == normalizedRow(row)
        rawDate == getValue(nrow, <<"T", "A", "N", "G", "G", "A", "L">>)
    IN  [publishedDate |-> normalizeDate(rawDate, parsed),
         media |-> Or(getValue(nrow, <<"M", "E", "D", "I", "A">>), <<"N", "/", "A">>),
         title |-> Or(getValue(nrow, <<"H", "E", "A", "D", "L", "I", "N", "E">>), <<"U", "n", "t", "i", "t", "l", "e", "d">>),
         summary |-> getValue(nrow, <<"S", "U", "M", "M", "A", "R", "Y">>),
         spokesperson |-> getValue(nrow, <<"S", "P", "O", "K", "E", "S", "P", "E", "R", "S", "O", "N">>),
         mainframe |-> Or(getValue(nrow, <<"M", "A", "I", "N", "F", "R", "A", "M", "E">>), <<"L", "a", "i", "n", "n", "y", "a">>),
         topic |-> Or(getValue(nrow, <<"T", "O", "P", "I", "K">>), <<"L", "a", "i", "n", "n", "y", "a">>),
         sentiment |-> mapSentiment("Overview", getValue(nrow, <<"T", "O", "N", "E">>)),
         url |-> getValue(nrow, <<"L", "I", "N", "K">>),
         company |-> Or(getValue(nrow, <<"J", "E", "N", "I", "S">>), <<"U", "m", "u", "m">>)]

\* SpokespersonPage: the tokens a header is searched for when no alias has a value
SpokespersonTokens == <<<<"S", "P", "O", "K", "E", "P", "E", "R", "S", "O", "N">>, <<"S", "P", "O", "K", "E", "S", "P", "E", "R", "S", "O", "N">>, <<"N", "A", "R", "A", "S", "U", "M", "B", "E", "R">>,
                        <<"J", "U", "R", "U", " ", "B", "I", "C", "A", "R", "A">>, <<"J", "U", "R", "U", "B", "I", "C", "A", "R", "A">>, <<"J", "U", "B", "I", "R">>>>

\* Object.keys(normalizedRow).find((key) => tokens.some((token) => key.includes(token)))
spokespersonKey(nrow) ==
    LET keys == Entries(nrow)
        hit(i) == \E t \in 1..Len(SpokespersonTokens) :
                     includes(keys[i].name, SpokespersonTokens[t])
    IN  IF \E i \in 1..Len(keys) : hit(i)
        THEN keys[CHOOSE i \in 1..Len(keys) :
                     hit(i) /\ \A j \in 1..(i - 1) : ~hit(j)].name
        ELSE NoProperty

\* SpokespersonPage.fetchSheet: the row mapped from one record
SpokespersonRow(row, index, parsed) ==
    LET nrow == normalizedRow(row)
        rawDate == getValue(nrow, <<"T", "A", "N", "G", "G", "A", "L">>)
        key == spokespersonKey(nrow)
        rawSpokesperson ==
            Trim(FirstTruthy(<<getValue(nrow, <<"S", "P", "O", "K", "E", "P", "E", "R", "S", "O", "N">>),
                               getValue(nrow, <<"S", "P", "O", "K", "E", "S", "P", "E", "R", "S", "O", "N">>),
                               getValue(nrow, <<"N", "A", "R", "A", "S", "U", "M", "B", "E", "R">>),
                               getValue(nrow, <<"J", "U", "R", "U", " ", "B", "I", "C", "A", "R", "A">>),
                               getValue(nrow, <<"J", "U", "R", "U", "B", "I", "C", "A", "R", "A">>),
                               getValue(nrow, <<"J", "U", "B", "I", "R">>),
                               IF key # NoProperty /\ key # <<>>
                               THEN GetProperty(nrow, key) ELSE <<>>>>))
    IN  [publishedDate |-> normalizeDate(rawDate, parsed),
         spokesperson |-> normalizeName(rawSpokesperson),
         sentiment |-> mapSentiment("Spokesperson", getValue(nrow, <<"T", "O", "N", "E">>))]

\* TopicsPage.fetchSheet: the row mapped from one record
TopicsRow(row, index, parsed) ==
    LET nrow == normalizedRow(row)
        rawDate == getValue(nrow, <<"T", "A", "N", "G", "G", "A", "L">>)
        rawTopic == Trim(getValue(nrow, <<"T", "O", "P", "I", "K">>))
    IN  [publishedDate |-> normalizeDate(rawDate, parsed),
         topic |-> Or(rawTopic, <<"L", "a", "i", "n", "n", "y", "a">>),
         sentiment |-> mapSentiment("Topics", getValue(nrow, <<"T", "O", "N", "E">>))]

\* ReportsPage: rawDate
ReportsRawDate(nrow) ==
    FirstTruthy(<<getValueReports(nrow, <<"T", "A", "N", "G", "G", "A", "L">>), getValueReports(nrow, <<"D", "A", "T", "E">>)>>)

\* ReportsPage.fetchSheet: the row mapped from one record
ReportsRow(row, index, parsed) ==
    LET nrow == normalizedRowReports(row)
        title == Trim(FirstTruthy(<<getValueReports(nrow, <<"T", "I", "T", "L", "E">>),
                                    getValueReports(nrow, <<"N", "A", "M", "A", " ", "R", "E", "P", "O", "R", "T">>),
                                    getValueReports(nrow, <<"N", "A", "M", "A", "_", "R", "E", "P", "O", "R", "T">>),
                                    getValueReports(nrow, <<"R", "E", "P", "O", "R", "T">>)>>))
        reportType == Trim(FirstTruthy(<<getValueReports(nrow, <<"J", "E", "N", "I", "S", " ", "R", "E", "P", "O", "R", "T">>),
                                         getValueReports(nrow, <<"J", "E", "N", "I", "S", "_", "R", "E", "P", "O", "R", "T">>),
                                         getValueReports(nrow, <<"T", "Y", "P", "E">>)>>))
        link == Trim(FirstTruthy(<<getValueReports(nrow, <<"L", "I", "N", "K">>),
                                   getValueReports(nrow, <<"U", "R", "L">>)>>))
    IN  [id |-> Or(getValueReports(nrow, <<"I", "D">>), RowId(index)),
         date |-> normalizeDate(ReportsRawDate(nrow), parsed),
         title |-> Or(title, <<"-">>),
         reportType |-> Or(reportType, <<"-">>),
         link |-> Or(link, <<"#">>)]

\* The five data pages.
Pages == {"Overview", "Articles", "Spokesperson", "Topics", "Reports"}

\* The date text a page's normalizer passes to normalizeDate.
RawDateOf(page, row) ==
    IF page = "Reports" THEN ReportsRawDate(normalizedRowReports(row))
    ELSE getValue(normalizedRow(row), <<"T", "A", "N", "G", "G", "A", "L">>)

\* What `new Date` can give for the date text of a row (None when it is not called).
DateChoices(page, row) ==
    IF CallsDate(RawDateOf(page, row)) THEN DateParse(Trim(RawDateOf(page, row)))
    ELSE {None}

\* The row a page maps from the record at `index` (counted from 0).
MapRow(page, row, index, parsed) ==
    CASE page = "Overview" -> OverviewRow(row, index, parsed)
      [] page = "Articles" -> ArticlesRow(row, index, parsed)
      [] page = "Spokesperson" -> SpokespersonRow(row, index, parsed)
      [] page = "Topics" -> TopicsRow(row, index, parsed)
      [] OTHER -> ReportsRow(row, index, parsed)

\* A mapping that leaves out the records whose date text `new Date` cannot read.
MapRows_droppingUndated(page, records, parsed) ==
    LET kept == Select([i \in 1..Len(records) |-> i],
                       [i \in 1..Len(records) |-> parsed[i] # Invalid])
    IN  [k \in 1..Len(kept) |-> MapRow(page, records[kept[k]], kept[k] - 1, parsed[kept[k]])]

\* rows.map((row, index) => ...); parsed[i] is what `new Date` gave for record i.
MapRows(page, records, parsed) ==
    [i \in 1..Len(records) |-> MapRow(page, records[i], i - 1, parsed[i])]

\* The outcomes of `new Date` over the records of a sheet.
ParsedChoices(page, records) ==
    {parsed \in [1..Len(records) -> {None, Invalid} \cup LegacyDates
                                     \cup UNION {DateChoices(page, records[i]) :
                                                    i \in 1..Len(records)}] :
        \A i \in 1..Len(records) : parsed[i] \in DateChoices(page, records[i])}

(***************************************************************************)
(* Inputs of the row normalizer: a record of one or two columns, and the   *)
(* same record under respelled headers                                     *)
(***************************************************************************)
\* Headers of a sheet, in the spelling the pages look up.
SheetHeaders == {<<"T", "O", "P", "I", "K">>, <<"T", "O", "P", "I", "C">>, <<"S", "P", "O", "K", "E", "S", "P", "E", "R", "S", "O", "N">>, <<"S", "P", "O", "K", "E", "P", "E", "R", "S", "O", "N">>,
                 <<"S", "P", "O", "K", "E", "S", " ", "P", "E", "R", "S", "O", "N">>, <<"J", "U", "R", "U", " ", "B", "I", "C", "A", "R", "A">>, <<"J", "U", "R", "U", "_", "B", "I", "C", "A", "R", "A">>, <<"J", "U", "B", "I", "R">>,
                 <<"J", "U", "B", "I", "R", " ", "K", "A", "M", "I">>, <<"J", "E", "N", "I", "S", " ", "M", "E", "D", "I", "A">>, <<"J", "E", "N", "I", "S", "_", "M", "E", "D", "I", "A">>, <<"M", "E", "D", "I", "A", " ", "T", "Y", "P", "E">>,
                 <<"C", "O", "M", "P", "A", "N", "Y">>, <<"P", "E", "R", "U", "S", "A", "H", "A", "A", "N">>, <<"J", "E", "N", "I", "S">>, <<"T", "O", "N", "E">>, <<"T", "A", "N", "G", "G", "A", "L">>,
                 <<"N", "A", "M", "A", " ", "R", "E", "P", "O", "R", "T">>, <<"N", "A", "M", "A", "_", "R", "E", "P", "O", "R", "T">>}

\* Headers of the second column, when the record has one.
SecondHeaders == {<<"T", "O", "P", "I", "C">>,
                  <<"S", "P", "O", "K", "E", "S", "P", "E", "R", "S", "O", "N">>,
                  <<"J", "U", "B", "I", "R", " ", "K", "A", "M", "I">>,
                  <<"J", "E", "N", "I", "S", "_", "M", "E", "D", "I", "A">>,
                  <<"P", "E", "R", "U", "S", "A", "H", "A", "A", "N">>,
                  <<"T", "A", "N", "G", "G", "A", "L">>}

\* Cell texts as fetchPublishedSheetRows delivers them (trimmed).
FirstCells == {<<>>, <<"A">>, <<"-">>, <<"C", "e", "t", "a", "k">>}
SecondCells == {<<"B">>}

\* s with every character `from` replaced by the text `to`.
RECURSIVE ReplaceChar(_, _, _)
ReplaceChar(s, from, to) ==
    IF s = <<>> THEN <<>>
    ELSE (IF Head(s) = from THEN to ELSE <<Head(s)>>) \o ReplaceChar(Tail(s), from, to)

\* Spellings of a header that differ in letter case, in the number of blanks, or in
\* '_' against ' ' only.
Respellings == {"same", "lower", "capital", "underscore", "blank", "wide"}

Respell(header, how) ==
    CASE how = "lower" -> toLowerCase(header)
      [] how = "capital" -> Capitalize(toLowerCase(header))
      [] how = "underscore" -> ReplaceChar(header, " ", <<"_">>)
      [] how = "blank" -> ReplaceChar(header, "_", <<" ">>)
      [] how = "wide" -> ReplaceChar(header, " ", <<" ", " ">>)
      [] OTHER -> header

FieldSources ==
    {src \in [first : SheetHeaders, firstCell : FirstCells,
              second : SecondHeaders \cup {<<>>}, secondCell : SecondCells,
              respelling : Respellings] :
        \* fetchPublishedSheetRows delivers no record whose cells are all empty
        /\ src.second # src.first
        /\ (src.firstCell # <<>> \/ src.second # <<>>)}

\* The record of a source, its headers spelled as `how` says.
RecordOf(src, how) ==
    <<[name |-> Respell(src.first, how), value |-> src.firstCell]>>
    \o (IF src.second = <<>> THEN <<>>
        ELSE <<[name |-> Respell(src.second, how), value |-> src.secondCell]>>)

FieldInit ==
    /\ PageIdle /\ DateIdle /\ AggIdle /\ CsvIdle /\ ToneIdle /\ OverviewIdle
    /\ ShareIdle /\ BreakdownIdle /\ PagingIdle /\ FilterIdle
    /\ fieldPage \in Pages
    /\ fieldSrc \in FieldSources
    /\ fieldSheets = << <<RecordOf(fieldSrc, "same")>>,
                        <<RecordOf(fieldSrc, fieldSrc.respelling)>> >>
    /\ fieldOut = <<>>
    /\ fieldPhase = "input"

\* fetchSheet after its await, on the next of the two sheets: rows.map(...) and
\* setRows(mapped).
MapSheet ==
    /\ fieldPhase \in {"input", "first"}
    /\ LET records == fieldSheets[Len(fieldOut) + 1]
       IN  \E parsed \in ParsedChoices(fieldPage, records) :
              fieldOut' = Append(fieldOut, MapRows(fieldPage, records, parsed))
    /\ fieldPhase' = (IF fieldPhase = "input" THEN "first" ELSE "done")
    /\ UNCHANGED <<fieldPage, fieldSrc, fieldSheets, pageVars, dateVars, aggVars,
                   csvVars, toneVars, overviewVars, shareVars,
                   breakdownVars, pagingVars,
                   filterVars>>

FieldNext == MapSheet

SpecField == FieldInit /\ [][FieldNext]_vars

(***************************************************************************)
(* Claims about the row normalizer (checked under SpecField)               *)
(***************************************************************************)
\* C12: in every page normalizer header matching is insensitive to letter case and
\* to whitespace and underscores: two sheets whose headers differ only in case, in
\* the number of spaces, or in '_' versus ' ' give the same normalized records.
C12_RespelledHeadersSameRecords ==
    fieldPhase = "done" => fieldOut[1] = fieldOut[2]

\* The categorical fields of a page's rows, each with the headers it is read from
\* in priority order.
CategoricalFields(page) ==
    CASE page = "Overview" ->
            {[field |-> "topic", aliases |-> <<<<"T", "O", "P", "I", "K">>>>],
             [field |-> "spokesperson", aliases |-> <<<<"S", "P", "O", "K", "E", "S", "P", "E", "R", "S", "O", "N">>>>],
             [field |-> "company", aliases |-> <<<<"J", "E", "N", "I", "S">>>>]}
      [] page = "Articles" ->
            {[field |-> "topic", aliases |-> <<<<"T", "O", "P", "I", "K">>, <<"T", "O", "P", "I", "C">>>>],
             [field |-> "spokesperson",
              aliases |-> <<<<"S", "P", "O", "K", "E", "S", "P", "E", "R", "S", "O", "N">>, <<"S", "P", "O", "K", "E", "P", "E", "R", "S", "O", "N">>, <<"S", "P", "O", "K", "E", "S", " ", "P", "E", "R", "S", "O", "N">>,
                            <<"S", "P", "O", "K", "E", " ", "P", "E", "R", "S", "O", "N">>, <<"J", "U", "R", "U", " ", "B", "I", "C", "A", "R", "A">>, <<"J", "U", "R", "U", "_", "B", "I", "C", "A", "R", "A">>,
                            <<"J", "U", "R", "U", "B", "I", "C", "A", "R", "A">>, <<"N", "A", "R", "A", "S", "U", "M", "B", "E", "R">>, <<"N", "A", "R", "A", " ", "S", "U", "M", "B", "E", "R">>>>],
             [field |-> "mediaType",
              aliases |-> <<<<"J", "E", "N", "I", "S", " ", "M", "E", "D", "I", "A">>, <<"J", "E", "N", "I", "S", "_", "M", "E", "D", "I", "A">>, <<"M", "E", "D", "I", "A", " ", "T", "Y", "P", "E">>,
                            <<"M", "E", "D", "I", "A", "_", "T", "Y", "P", "E">>>>],
             [field |-> "company", aliases |-> <<<<"C", "O", "M", "P", "A", "N", "Y">>, <<"P", "E", "R", "U", "S", "A", "H", "A", "A", "N">>>>]}
      [] page = "Spokesperson" ->
            {[field |-> "spokesperson",
              aliases |-> <<<<"S", "P", "O", "K", "E", "P", "E", "R", "S", "O", "N">>, <<"S", "P", "O", "K", "E", "S", "P", "E", "R", "S", "O", "N">>, <<"N", "A", "R", "A", "S", "U", "M", "B", "E", "R">>,
                            <<"J", "U", "R", "U", " ", "B", "I", "C", "A", "R", "A">>, <<"J", "U", "R", "U", "B", "I", "C", "A", "R", "A">>, <<"J", "U", "B", "I", "R">>>>]}
      [] page = "Topics" -> {[field |-> "topic", aliases |-> <<<<"T", "O", "P", "I", "K">>>>]}
      [] OTHER -> {}

\* The cell of a record under a header, empty when the record has no such column.
CellUnder(record, header) ==
    IF \E i \in 1..Len(record) : record[i].name = header
    THEN record[CHOOSE i \in 1..Len(record) : record[i].name = header].value
    ELSE <<>>

\* C13: for each categorical field (topic, spokesperson, media type, company) the
\* normalizer takes the value of the first alias, in priority order, whose cell is
\* non-empty, and a fixed placeholder when no alias has one, so that the normalized
\* field is never the empty string.
C13_FirstAliasOrPlaceholder ==
    fieldPhase \in {"first", "done"} =>
        \A f \in CategoricalFields(fieldPage) :
            LET record == fieldSheets[1][1]
                value == fieldOut[1][1][f.field]
                filled == {i \in 1..Len(f.aliases) :
                              CellUnder(record, f.aliases[i]) # <<>>}
            IN  /\ value # <<>>
                /\ \A i \in filled :
                      (\A j \in filled : i <= j) =>
                          value = CellUnder(record, f.aliases[i])

(***************************************************************************)
(* OverviewPage end to end: the response text is parsed, keyed by header,  *)
(* mapped to rows, and the rows within the date range are counted          *)
(***************************************************************************)
\* The properties of a record in creation order: one per distinct non-empty header,
\* created where the header first occurs.
RECURSIVE PropertiesOf(_, _)
PropertiesOf(headers, record) ==
    IF headers = <<>> THEN <<>>
    ELSE LET before == PropertiesOf(SubSeq(headers, 1, Len(headers) - 1), record)
             header == headers[Len(headers)]
         IN  IF header = <<>> THEN before
             ELSE SetProperty(before, header, record[header])

\* What fetchPublishedSheetRows resolves to for a response text.
FetchedRecords(text) ==
    LET table == parseCsv(text)
        records == BuildRecords(table)
    IN  IF records = <<>> THEN <<>>
        ELSE LET headers == [i \in 1..Len(table[1]) |-> CleanHeader(table[1][i])]
             IN  [r \in 1..Len(records) |-> PropertiesOf(headers, records[r])]

\* The characters of the modelled alphabet in the order of their UTF-16 code units.
CodeUnitOrder == <<"\t", "\n", "\r", " ", "\"", "#", ",", "-", ".", "/",
                   "0", "1", "2", "3", "4", "5", "6", "7", "8", "9",
                   "A", "B", "C", "D", "E", "F", "G", "H", "I", "J", "K", "L", "M",
                   "N", "O", "P", "Q", "R", "S", "T", "U", "V", "W", "X", "Y", "Z",
                   "_",
                   "a", "b", "c", "d", "e", "f", "g", "h", "i", "j", "k", "l", "m",
                   "n", "o", "p", "q", "r", "s", "t", "u", "v", "w", "x", "y", "z">>

CodeUnit(c) == CHOOSE i \in 1..Len(CodeUnitOrder) : CodeUnitOrder[i] = c

\* a <= b on strings: by code units from the left, a prefix first.
RECURSIVE StringLessEq(_, _)
StringLessEq(a, b) ==
    IF a = <<>> THEN TRUE
    ELSE IF b = <<>> THEN FALSE
    ELSE IF Head(a) = Head(b) THEN StringLessEq(Tail(a), Tail(b))
    ELSE CodeUnit(Head(a)) < CodeUnit(Head(b))

DEFAULT_START_DATE == <<"2", "0", "2", "5", "-", "0", "1", "-", "0", "1">>

\* OverviewPage.filteredRows
filteredRows(rows_, dateFrom, dateTo, companyFilter, sentimentFilter) ==
    Select(rows_,
           [i \in 1..Len(rows_) |->
               /\ (dateFrom = <<>> \/ StringLessEq(dateFrom, rows_[i].publishedDate))
               /\ (dateTo = <<>> \/ StringLessEq(rows_[i].publishedDate, dateTo))
               /\ (companyFilter = "All" \/ rows_[i].company = companyFilter)
               /\ (sentimentFilter = "All" \/ rows_[i].sentiment = sentimentFilter)])

\* OverviewPage.sentimentCounts
sentimentCounts(filtered) ==
    [label \in {"Positif", "Netral", "Negatif"} |->
        Cardinality({i \in 1..Len(filtered) : filtered[i].sentiment = label})]

(***************************************************************************)
(* Inputs: a sheet with header TANGGAL,MEDIA,HEADLINE,TONE                 *)
(***************************************************************************)
\* Most lines after the header line.
MaxSheetLines == 3

SheetHeaderLine == <<<<"T", "A", "N", "G", "G", "A", "L">>, <<"M", "E", "D", "I", "A">>, <<"H", "E", "A", "D", "L", "I", "N", "E">>, <<"T", "O", "N", "E">>>>

\* Date cells: a day-first date in the default range and a text that is no date.
SheetDates == {<<"0", "5", "/", "0", "3", "/", "2", "0", "2", "5">>, <<"n", "/", "a">>}

\* Tone cells.
SheetTones == {<<"P", "o", "s", "i", "t", "i", "f">>, <<"n", "e", "g", "a", "t", "i", "v", "e">>, <<>>}

SheetLines ==
    [kind : {"row"}, date : SheetDates, tone : SheetTones]
    \cup [kind : {"blank"}, date : {<<>>}, tone : {<<>>}]

\* The cells of a line; a blank line is written as delimiters only.
LineCells(line) ==
    IF line.kind = "blank" THEN <<<<>>, <<>>, <<>>, <<>>>>
    ELSE <<line.date, <<"M">>, <<"H">>, line.tone>>

SheetTextOf(src) ==
    Join(<<PlainLine(SheetHeaderLine)>>
         \o [i \in 1..Len(src) |-> PlainLine(LineCells(src[i]))], <<"\n">>)

\* new Date().toISOString().slice(0, 10) at the time of the fetch.
Todays == {<<"2", "0", "2", "5", "-", "1", "2", "-", "3", "1">>}

OverviewInit ==
    /\ PageIdle /\ DateIdle /\ AggIdle /\ CsvIdle /\ ToneIdle /\ FieldIdle
    /\ ShareIdle /\ BreakdownIdle /\ PagingIdle /\ FilterIdle
    /\ ovSrc \in SeqsUpTo(SheetLines, MaxSheetLines)
    /\ ovToday \in Todays
    /\ ovText = SheetTextOf(ovSrc)
    /\ ovRecords = <<>>
    /\ ovRows = <<>>
    /\ ovDateFrom = <<>>
    /\ ovDateTo = <<>>
    /\ ovCompanyFilter = "All"
    /\ ovSentimentFilter = "All"
    /\ ovPhase = "response"

\* OverviewPage.fetchSheet once the response text is there: the records are mapped,
\* setRows(mapped), and the empty date filters get their defaults.
FetchSheetOverview ==
    /\ ovPhase = "response"
    /\ LET records == FetchedRecords(ovText)
       IN  /\ ovRecords' = records
           /\ \E parsed \in ParsedChoices("Overview", records) :
                 ovRows' = MapRows("Overview", records, parsed)
    /\ ovDateFrom' = Or(ovDateFrom, DEFAULT_START_DATE)
    /\ ovDateTo' = Or(ovDateTo, ovToday)
    /\ ovPhase' = "done"
    /\ UNCHANGED <<ovSrc, ovToday, ovText, ovCompanyFilter, ovSentimentFilter,
                   pageVars, dateVars, aggVars, csvVars, toneVars, fieldVars,
                   shareVars,
                   breakdownVars, pagingVars,
                   filterVars>>

OverviewNext == FetchSheetOverview

SpecOverview == OverviewInit /\ [][OverviewNext]_vars

(***************************************************************************)
(* Claims about the Overview pipeline (checked under SpecOverview)         *)
(***************************************************************************)
\* The lines of a source that are not blank.
WrittenLines(src) == Select(src, [i \in 1..Len(src) |-> src[i].kind = "row"])

\* C14: no row is dropped because of a field-level anomaly: after a successful fetch
\* the page holds exactly one normalized record per RawRow, whatever the row's date
\* or tone text is; only entirely blank lines are dropped.
C14_OneRowPerRecord ==
    ovPhase = "done" =>
        /\ Len(ovRows) = Len(ovRecords)
        /\ Len(ovRows) = Len(WrittenLines(ovSrc))
        /\ \A i \in 1..Len(ovRows) :
              GetProperty(ovRecords[i], <<"T", "O", "N", "E">>) = WrittenLines(ovSrc)[i].tone

\* A sheet with a blank line, a row with a text that is no date and without tone
\* and a dated row has been mapped, one row for each line that is not blank.
C14_Witness ==
    /\ ovPhase = "done"
    /\ Len(ovSrc) = 3 /\ Len(ovRows) = 2
    /\ ovSrc[2].kind = "blank"
    /\ ovSrc[1].date = <<"n", "/", "a">> /\ ovSrc[1].tone = <<>>
    /\ ovSrc[3].date = <<"0", "5", "/", "0", "3", "/", "2", "0", "2", "5">>

\* The source is the end-to-end scenario: three rows, one per sentiment label, one of
\* them with a text that is no date and the others dated within the date range.
IsScenario(src) ==
    /\ Len(src) = 3
    /\ \A i \in 1..3 : src[i].kind = "row"
    /\ {src[i].tone : i \in 1..3} = SheetTones
    /\ \E i \in 1..3 :
          /\ src[i].date = <<"n", "/", "a">>
          /\ \A j \in (1..3) \ {i} : src[j].date = <<"0", "5", "/", "0", "3", "/", "2", "0", "2", "5">>

\* C15: end to end on the Overview pipeline, a CSV with header
\* TANGGAL,MEDIA,HEADLINE,TONE and three data rows, one per sentiment label, one of
\* which has an unparseable date, yields 3 normalized records, sentiment counts of
\* positive 1, neutral 1, negative 1, and the unparseable date verbatim in the date
\* field of its record.
C15_EndToEndScenario ==
    (ovPhase = "done" /\ IsScenario(ovSrc)) =>
        /\ Len(ovRows) = 3
        /\ sentimentCounts(filteredRows(ovRows, ovDateFrom, ovDateTo,
                                        ovCompanyFilter, ovSentimentFilter))
              = [label \in {"Positif", "Netral", "Negatif"} |-> 1]
        /\ \A i \in 1..3 :
              ovSrc[i].date = <<"n", "/", "a">> => ovRows[i].publishedDate = <<"n", "/", "a">>

(***************************************************************************)
(* Integer shares: OverviewPage, the KPIs of DashboardLayout, SummaryPage  *)
(*                                                                         *)
(* A JavaScript number is modelled as the exact fraction <<num, den>> with *)
(* den > 0, or as NaN or Infinity.                                         *)
(***************************************************************************)
NaN == <<"NaN">>
Infinity == <<"Infinity">>

IsFraction(x) == Len(x) = 2

\* a / b on two counts: 0 / 0 is NaN and a positive count over 0 is Infinity.
Divide(a, b) ==
    IF b = 0 THEN (IF a = 0 THEN NaN ELSE Infinity) ELSE <<a, b>>

\* x * k for a positive integer k.
Times(x, k) == IF IsFraction(x) THEN <<x[1] * k, x[2]>> ELSE x

\* Math.floor on a number that is not negative.
MathRound_floor(x) ==
    IF IsFraction(x) THEN <<x[1] \div x[2], 1>> ELSE x

\* Math.round on a number that is not negative: the nearest integer, a half goes up.
MathRound(x) ==
    IF IsFraction(x) THEN <<(2 * x[1] + x[2]) \div (2 * x[2]), 1>> ELSE x

\* totalMentions ? Math.round((sentimentCounts.X / totalMentions) * 100) : 0
OverviewShare(count, totalMentions) ==
    IF totalMentions # 0 THEN MathRound(Times(Divide(count, totalMentions), 100))
    ELSE <<0, 1>>

\* kpis: total ? Math.round((sentimentCounts.X / total) * 100) : 0
kpisShare(count, total) ==
    IF total # 0 THEN MathRound(Times(Divide(count, total), 100)) ELSE <<0, 1>>

\* SummaryPage: total = kpis.total || 1; percent = Math.round((item.value / total) * 100)
percent(value, kpisTotal) ==
    LET total == IF kpisTotal # 0 THEN kpisTotal ELSE 1
    IN  MathRound(Times(Divide(value, total), 100))

\* Most rows of one sentiment label.
MaxShareCount == 4

Sentiments == {"Positive", "Neutral", "Negative"}

\* filteredRows.length / filteredArticles.length: every row has one of the labels.
TotalOf(counts) == counts.Positive + counts.Neutral + counts.Negative

ShareInit ==
    /\ PageIdle /\ DateIdle /\ AggIdle /\ CsvIdle /\ ToneIdle /\ FieldIdle
    /\ OverviewIdle /\ BreakdownIdle /\ PagingIdle /\ FilterIdle
    /\ shareCounts \in [Sentiments -> 0..MaxShareCount]
    /\ shareOut = None
    /\ sharePhase = "counts"

\* One render: the shares of OverviewPage, of the KPIs and of SummaryPage.
ComputeShares ==
    /\ sharePhase = "counts"
    /\ shareOut' =
          [overview |-> [s \in Sentiments |->
                            OverviewShare(shareCounts[s], TotalOf(shareCounts))],
           kpis     |-> [s \in {"Positive", "Negative"} |->
                            kpisShare(shareCounts[s], TotalOf(shareCounts))],
           summary  |-> [s \in Sentiments |->
                            percent(shareCounts[s], TotalOf(shareCounts))]]
    /\ sharePhase' = "done"
    /\ UNCHANGED <<shareCounts, pageVars, dateVars, aggVars, csvVars, toneVars,
                   fieldVars, overviewVars, breakdownVars, pagingVars,
                   filterVars>>

ShareNext == ComputeShares

SpecShare == ShareInit /\ [][ShareNext]_vars

(***************************************************************************)
(* Claims about the shares (checked under SpecShare)                       *)
(***************************************************************************)
\* share is the integer nearest to count / total * 100 (a half counted upwards), and
\* 0 when the total is 0.
IsRoundedShare(share, count, total) ==
    /\ IsFraction(share) /\ share[2] = 1 /\ share[1] \in 0..100
    /\ IF total = 0 THEN share[1] = 0
       ELSE /\ (2 * share[1] - 1) * total <= 200 * count
            /\ 200 * count < (2 * share[1] + 1) * total

filteredRowsByDate(rows_, dateFrom, dateTo) ==
    Select(rows_,
           [i \in 1..Len(rows_) |->
               /\ (dateFrom = <<>> \/ StringLessEq(dateFrom, rows_[i].publishedDate))
               /\ (dateTo = <<>> \/ StringLessEq(rows_[i].publishedDate, dateTo))])

\* The rows of one sentiment label.
RowsOfSentiment(filtered, label) ==
    Select(filtered, [i \in 1..Len(filtered) |-> filtered[i].sentiment = label])

\* SpokespersonPage.positiveDistribution / negativeDistribution:
\* .filter((row) => row.sentiment === label && row.spokesperson)
spokespersonSentimentDistribution(filtered, label) ==
    LET named == Select(filtered,
                        [i \in 1..Len(filtered) |->
                            /\ filtered[i].sentiment = label
                            /\ filtered[i].spokesperson # <<>>])
    IN  SortByValueDesc(Entries(CountKeys(
            [i \in 1..Len(named) |-> named[i].spokesperson])))

\* TopicsPage.positiveDistribution / negativeDistribution
topicSentimentDistribution(filtered, label) ==
    topicDistribution(RowsOfSentiment(filtered, label))

\* Most records of a sheet.
MaxBreakdownRows == 2

SPOKESPERSON == <<"S", "P", "O", "K", "E", "S", "P", "E", "R", "S", "O", "N">>
TOPIK == <<"T", "O", "P", "I", "K">>
TANGGAL == <<"T", "A", "N", "G", "G", "A", "L">>
TONE == <<"T", "O", "N", "E">>
Lainnya == <<"L", "a", "i", "n", "n", "y", "a">>

\* Spokesperson cells: a name, no text, and the placeholders in some letter case.
SpokespersonCells == {<<"B">>, <<>>, <<"-">>, <<EmDash>>, <<"N", "/", "A">>,
                      <<"n", "u", "l", "l">>}
BreakdownTones == {<<"P", "o", "s", "i", "t", "i", "f">>,
                   <<"n", "e", "g", "a", "t", "i", "f">>}

\* Lines of a sheet: every spokesperson cell, and lines without topic or without
\* spokesperson in either tone.
BreakdownLines ==
    [spokesperson : SpokespersonCells, topic : {<<"T">>},
     tone : {<<"P", "o", "s", "i", "t", "i", "f">>}]
    \cup [spokesperson : {<<"B">>, <<>>}, topic : {<<>>}, tone : BreakdownTones]
    \cup [spokesperson : {<<"-">>}, topic : {<<"T">>},
          tone : {<<"n", "e", "g", "a", "t", "i", "f">>}]

\* The date cell of every record: a day-first date inside the default date range.
BreakdownDate == <<"0", "5", "/", "0", "3", "/", "2", "0", "2", "5">>
BreakdownToday == <<"2", "0", "2", "5", "-", "1", "2", "-", "3", "1">>

\* The record fetchPublishedSheetRows builds from a line of the sheet.
BreakdownRecord(line) ==
    <<[name |-> TANGGAL, value |-> BreakdownDate],
      [name |-> SPOKESPERSON, value |-> line.spokesperson],
      [name |-> TOPIK, value |-> line.topic],
      [name |-> TONE, value |-> line.tone]>>

BreakdownInit ==
    /\ PageIdle /\ DateIdle /\ AggIdle /\ CsvIdle /\ ToneIdle /\ FieldIdle
    /\ OverviewIdle /\ ShareIdle /\ PagingIdle /\ FilterIdle
    /\ brkSrc \in SeqsUpTo(BreakdownLines, MaxBreakdownRows)
    /\ brkRows = None
    /\ brkOut = None
    /\ brkPhase = "records"

\* fetchSheet of SpokespersonPage and of TopicsPage after the await: rows.map(...)
\* and setRows(mapped).
MapBreakdownRows ==
    /\ brkPhase = "records"
    /\ LET records == [i \in 1..Len(brkSrc) |-> BreakdownRecord(brkSrc[i])]
       IN  \E parsed \in ParsedChoices("Spokesperson", records) :
              brkRows' = [Spokesperson |-> MapRows("Spokesperson", records, parsed),
                          Topics |-> MapRows("Topics", records, parsed)]
    /\ brkPhase' = "rows"
    /\ UNCHANGED <<brkSrc, brkOut, pageVars, dateVars, aggVars, csvVars, toneVars,
                   fieldVars, overviewVars, shareVars, pagingVars,
                   filterVars>>

\* The render after the fetch: the memoized breakdowns over the rows in the default
\* date range.
ComputeBreakdowns ==
    /\ brkPhase = "rows"
    /\ LET spoken == filteredRowsByDate(brkRows.Spokesperson, DEFAULT_START_DATE,
                                        BreakdownToday)
           topical == filteredRowsByDate(brkRows.Topics, DEFAULT_START_DATE,
                                         BreakdownToday)
       IN  brkOut' =
              [spokesperson |-> spokespersonDistribution(spoken),
               spokespersonPositive |->
                   spokespersonSentimentDistribution(spoken, "Positif"),
               spokespersonNegative |->
                   spokespersonSentimentDistribution(spoken, "Negatif"),
               topic |-> topicDistribution(topical),
               topicPositive |-> topicSentimentDistribution(topical, "Positif"),
               topicNegative |-> topicSentimentDistribution(topical, "Negatif")]
    /\ brkPhase' = "done"
    /\ UNCHANGED <<brkSrc, brkRows, pageVars, dateVars, aggVars, csvVars, toneVars,
                   fieldVars, overviewVars, shareVars, pagingVars,
                   filterVars>>

BreakdownNext == MapBreakdownRows \/ ComputeBreakdowns

SpecBreakdown == BreakdownInit /\ [][BreakdownNext]_vars

(***************************************************************************)
(* Claims about the breakdowns (checked under SpecBreakdown)               *)
(***************************************************************************)
\* The cell holds no spokesperson: no text or one of the placeholders.
IsPlaceholder(cell) ==
    toLowerCase(Trim(cell)) \in {<<>>, <<"-">>, <<EmDash>>, <<"n", "u", "l", "l">>,
                                 <<"n", "/", "a">>}

\* The sum of the values of a distribution.
RECURSIVE SumOfValues(_)
SumOfValues(list) ==
    IF list = <<>> THEN 0 ELSE Head(list).value + SumOfValues(Tail(list))

\* The value of the bucket `name` of a distribution, 0 when it has no such bucket.
ValueOf(list, name) ==
    IF \E i \in 1..Len(list) : list[i].name = name
    THEN list[CHOOSE i \in 1..Len(list) : list[i].name = name].value
    ELSE 0

\* The lines of a source whose tone maps to `label` ("All": every line).
LinesOfTone(src, label) ==
    {i \in 1..Len(src) : label = "All" \/ mapSentiment("Topics", src[i].tone) = label}

\* C22: a record whose spokesperson is empty (including the placeholders "-", the
\* em dash, "null" and "n/a") is excluded from every spokesperson breakdown, whereas
\* a record whose topic is empty is counted under the sentinel "Lainnya" in the topic
\* breakdowns.
C22_EmptySpokespersonExcludedEmptyTopicLainnya ==
    brkPhase = "done" =>
        \A view \in {<<"spokesperson", "topic", "All">>,
                     <<"spokespersonPositive", "topicPositive", "Positif">>,
                     <<"spokespersonNegative", "topicNegative", "Negatif">>} :
            LET lines == LinesOfTone(brkSrc, view[3])
            IN  /\ \A b \in 1..Len(brkOut[view[1]]) :
                      ~IsPlaceholder(brkOut[view[1]][b].name)
                /\ SumOfValues(brkOut[view[1]]) =
                      Cardinality({i \in lines : ~IsPlaceholder(brkSrc[i].spokesperson)})
                /\ ValueOf(brkOut[view[2]], Lainnya) =
                      Cardinality({i \in lines : brkSrc[i].topic = <<>>})
                /\ SumOfValues(brkOut[view[2]]) = Cardinality(lines)

\* The breakdowns have been computed over a sheet of a record with a placeholder for
\* its spokesperson and a record without topic.
C22_Witness ==
    /\ brkPhase = "done"
    /\ Len(brkSrc) = 2
    /\ brkSrc[1].spokesperson = <<"N", "/", "A">>
    /\ brkSrc[2].topic = <<>> /\ brkSrc[2].spokesperson = <<"B">>
    /\ brkOut.spokesperson = <<[name |-> <<"B">>, value |-> 1]>>
    /\ ValueOf(brkOut.topic, Lainnya) = 1

(***************************************************************************)
(* Pagination: the page index of a list, the effects that reset and clamp  *)
(* it, and the Prev / Next buttons                                         *)
(*                                                                         *)
(* A list is known by the number of its items.  The effects a render       *)
(* leaves to run are kept in pgEffects; React runs them before it handles  *)
(* the next event.                                                         *)
(***************************************************************************)
\* Math.max and Math.min on integers
MathMax(a, b) == IF a >= b THEN a ELSE b
MathMin(a, b) == IF a <= b THEN a ELSE b

\* Math.ceil(n / size) on counts
MathCeilDiv(n, size) == (n + size - 1) \div size

\* The paginated lists: the table of OverviewPage, ArticlesPage and ReportsPage and
\* the three distributions of TopicsPage and of SpokespersonPage.
Lists ==
    [view : {"Overview", "Articles", "Reports"}, list : {"rows"}]
    \cup [view : {"Topics"}, list : {"topic", "positive", "negative"}]
    \cup [view : {"Spokesperson"}, list : {"spokesperson", "positive", "negative"}]

\* pageSize, topicPageSize, positivePageSize, spokespersonPageSize
pageSize(l) ==
    CASE l.view = "Overview" -> 8
      [] l.view = "Articles" -> 50
      [] OTHER -> 10

\* Math.max(1, Math.ceil(items.length / pageSize))
totalPages(l, items) == MathMax(1, MathCeilDiv(items, pageSize(l)))

\* items.slice((page - 1) * pageSize, page * pageSize).length
pagedRows(l, items, page) ==
    MathMax(0, MathMin(items, page * pageSize(l)) - (page - 1) * pageSize(l))

\* The page has the effect `if (page > totalPages) setPage(totalPages)` for the list;
\* OverviewPage has none.
HasClamp(l) == l.view # "Overview"

\* The effects whose dependencies changed in a render: setPage(1) on the filters (on
\* the rows in ReportsPage), the clamp on [page, totalPages], the sort direction on
\* [sortBy].
Scheduled(l, filtersChanged, rowsChanged, pageChanged, totalChanged, sortChanged) ==
    (IF (l.view = "Reports" /\ rowsChanged) \/ (l.view # "Reports" /\ filtersChanged)
     THEN {"reset"} ELSE {})
    \cup (IF HasClamp(l) /\ (pageChanged \/ totalChanged) THEN {"clamp"} ELSE {})
    \cup (IF l.view = "Overview" /\ sortChanged THEN {"sortDirection"} ELSE {})

\* Most full pages of a list.
MaxFullPages == 2

\* Numbers of items around the page boundaries.
ItemCounts(l) == UNION {{k * pageSize(l), k * pageSize(l) + 1} : k \in 0..MaxFullPages}

SortColumns == {"TANGGAL", "MEDIA", "HEADLINE", "TONE", "LINK"}

\* The first render of a page: no rows yet, page 1, and every effect runs once.
PagingInit ==
    /\ PageIdle /\ DateIdle /\ AggIdle /\ CsvIdle /\ ToneIdle /\ FieldIdle
    /\ OverviewIdle /\ ShareIdle /\ BreakdownIdle /\ FilterIdle
    /\ pgList \in Lists
    /\ pgItems = 0
    /\ pgPage = 1
    /\ pgEffects = Scheduled(pgList, TRUE, TRUE, TRUE, TRUE, TRUE)
    /\ pgSortBy = "TANGGAL"
    /\ pgSortDirection = "desc"

\* The user changes a filter (date range, company, sentiment, media type): the list
\* has n items now.
ChangeFilter ==
    /\ pgEffects = {} /\ pgList.view # "Reports"
    /\ \E n \in ItemCounts(pgList) :
          /\ pgItems' = n
          /\ pgEffects' = Scheduled(pgList, TRUE, FALSE, FALSE,
                                    totalPages(pgList, n) # totalPages(pgList, pgItems),
                                    FALSE)
    /\ UNCHANGED <<pgList, pgPage, pgSortBy, pgSortDirection, pageVars, dateVars,
                   aggVars, csvVars, toneVars, fieldVars, overviewVars, shareVars,
                   breakdownVars, filterVars>>

\* A fetch succeeds: setRows(mapped), after which the list has n items; the date
\* filters are set as well when they were empty.
RefreshData ==
    /\ pgEffects = {}
    /\ \E n \in ItemCounts(pgList), datesSet \in BOOLEAN :
          /\ pgItems' = n
          /\ pgEffects' = Scheduled(pgList, datesSet, TRUE, FALSE,
                                    totalPages(pgList, n) # totalPages(pgList, pgItems),
                                    FALSE)
    /\ UNCHANGED <<pgList, pgPage, pgSortBy, pgSortDirection, pageVars, dateVars,
                   aggVars, csvVars, toneVars, fieldVars, overviewVars, shareVars,
                   breakdownVars, filterVars>>

\* The sort column of OverviewPage is changed: setSortBy.
ChangeSort ==
    /\ pgEffects = {} /\ pgList.view = "Overview"
    /\ \E column \in SortColumns \ {pgSortBy} : pgSortBy' = column
    /\ pgEffects' = Scheduled(pgList, FALSE, FALSE, FALSE, FALSE, TRUE)
    /\ UNCHANGED <<pgList, pgItems, pgPage, pgSortDirection, pageVars, dateVars,
                   aggVars, csvVars, toneVars, fieldVars, overviewVars, shareVars,
                   breakdownVars, filterVars>>

\* The Prev button: setPage((prev) => Math.max(1, prev - 1))
PrevPage ==
    /\ pgEffects = {}
    /\ pgPage' = MathMax(1, pgPage - 1)
    /\ pgEffects' = Scheduled(pgList, FALSE, FALSE, pgPage' # pgPage, FALSE, FALSE)
    /\ UNCHANGED <<pgList, pgItems, pgSortBy, pgSortDirection, pageVars, dateVars,
                   aggVars, csvVars, toneVars, fieldVars, overviewVars, shareVars,
                   breakdownVars, filterVars>>

\* The Next button: setPage((prev) => Math.min(totalPages, prev + 1))
NextPage ==
    /\ pgEffects = {}
    /\ pgPage' = MathMin(totalPages(pgList, pgItems), pgPage + 1)
    /\ pgEffects' = Scheduled(pgList, FALSE, FALSE, pgPage' # pgPage, FALSE, FALSE)
    /\ UNCHANGED <<pgList, pgItems, pgSortBy, pgSortDirection, pageVars, dateVars,
                   aggVars, csvVars, toneVars, fieldVars, overviewVars, shareVars,
                   breakdownVars, filterVars>>

\* Effects that never clamp the page.
RunEffects_noClamp ==
    /\ pgEffects # {}
    /\ pgPage' = (IF "reset" \in pgEffects THEN 1 ELSE pgPage)
    /\ pgSortDirection' =
          (IF "sortDirection" \in pgEffects
           THEN (IF pgSortBy = "TANGGAL" THEN "desc" ELSE "asc")
           ELSE pgSortDirection)
    /\ pgEffects' = Scheduled(pgList, FALSE, FALSE, pgPage' # pgPage, FALSE, FALSE)
    /\ UNCHANGED <<pgList, pgItems, pgSortBy, pageVars, dateVars,
                   aggVars, csvVars, toneVars, fieldVars, overviewVars, shareVars,
                   breakdownVars, filterVars>>

\* The effects of the last render run in the order of their declaration, each with
\* the page and totalPages of that render: setPage(1), then the clamp, whose setPage
\* is the later one, and the sort direction.
RunEffects ==
    /\ pgEffects # {}
    /\ pgPage' =
          (IF "clamp" \in pgEffects /\ pgPage > totalPages(pgList, pgItems)
           THEN totalPages(pgList, pgItems)
           ELSE IF "reset" \in pgEffects THEN 1
           ELSE pgPage)
    /\ pgSortDirection' =
          (IF "sortDirection" \in pgEffects
           THEN (IF pgSortBy = "TANGGAL" THEN "desc" ELSE "asc")
           ELSE pgSortDirection)
    /\ pgEffects' = Scheduled(pgList, FALSE, FALSE, pgPage' # pgPage, FALSE, FALSE)
    /\ UNCHANGED <<pgList, pgItems, pgSortBy, pageVars, dateVars,
                   aggVars, csvVars, toneVars, fieldVars, overviewVars, shareVars,
                   breakdownVars, filterVars>>

PagingNext ==
    \/ ChangeFilter
    \/ RefreshData
    \/ ChangeSort
    \/ PrevPage
    \/ NextPage
    \/ RunEffects

SpecPaging == PagingInit /\ [][PagingNext]_vars

(***************************************************************************)
(* Claims about the pagination (checked under SpecPaging)                  *)
(***************************************************************************)
\* k is max(1, ceil(items / size)): the least number of pages, at least one, that
\* hold all the items.
IsPageCount(k, items, size) ==
    /\ k >= 1
    /\ k * size >= items
    /\ k > 1 => (k - 1) * size < items

\* C24: on the Overview page, after any sequence of filter changes, sort changes,
\* Prev/Next clicks and data refreshes (including a refresh that returns fewer rows),
\* once effects have settled the current page satisfies 1 <= page <= totalPages, so
\* the displayed page of rows is non-empty whenever the filtered set is non-empty.
C24_OverviewPageInRange ==
    (pgList.view = "Overview" /\ pgEffects = {}) =>
        /\ 1 <= pgPage /\ pgPage <= totalPages(pgList, pgItems)
        /\ pgItems > 0 => pagedRows(pgList, pgItems, pgPage) > 0

\* C25: on the Articles, Topics, Spokesperson and Reports pages, after any sequence
\* of filter changes, Prev/Next clicks and data refreshes, once effects have settled
\* every page index satisfies 1 <= page <= totalPages, where
\* totalPages = max(1, ceil(items / pageSize)).
C25_PageInRange ==
    (pgList.view \in {"Articles", "Topics", "Spokesperson", "Reports"}
     /\ pgEffects = {}) =>
        /\ 1 <= pgPage /\ pgPage <= totalPages(pgList, pgItems)
        /\ IsPageCount(totalPages(pgList, pgItems), pgItems, pageSize(pgList))

\* The articles are on their second and last page, with the effects settled.
C25_Witness ==
    /\ pgList.view = "Articles"
    /\ pgEffects = {}
    /\ pgItems = 51
    /\ pgPage = 2

(***************************************************************************)
(* The filters of a page across its data refreshes                         *)
(*                                                                         *)
(* OverviewPage filters by date range, company and sentiment, ArticlesPage *)
(* by date range and media type, TopicsPage and SpokespersonPage by date   *)
(* range.  A fetch is identified by its number; fltShown holds once a      *)
(* fetch has succeeded and the filter controls are on screen.              *)
(***************************************************************************)
\* Most fetches started while the filters are watched.
MaxRefreshes == 3

FilterViews == {"Overview", "Articles", "Topics", "Spokesperson"}

\* new Date().toISOString().slice(0, 10) on the day of the run.
FilterToday == <<"2", "0", "2", "5", "-", "1", "2", "-", "3", "1">>

\* What the user can leave in a date input: nothing, or a day.
DateInputs == {<<>>, <<"2", "0", "2", "5", "-", "0", "2", "-", "0", "1">>}

CompanyChoices == {"All", "Client A"}
SentimentChoices == {"All", "Negatif"}
MediaTypeChoices == {"Semua", "Online"}

\* The filters a page has.
FiltersOf(view) ==
    {"dateFrom", "dateTo"}
    \cup (IF view = "Overview" THEN {"companyFilter", "sentimentFilter"} ELSE {})
    \cup (IF view = "Articles" THEN {"mediaType"} ELSE {})

\* setDateFrom((current) => current || DEFAULT_START_DATE) and
\* setDateTo((current) => current || todayString)
WithDefaultDates(filters) ==
    [filters EXCEPT !.dateFrom = IF @ = <<>> THEN DEFAULT_START_DATE ELSE @,
                    !.dateTo = IF @ = <<>> THEN FilterToday ELSE @]

\* The first render of a page.
FilterInit ==
    /\ PageIdle /\ DateIdle /\ AggIdle /\ CsvIdle /\ ToneIdle /\ FieldIdle
    /\ OverviewIdle /\ ShareIdle /\ BreakdownIdle /\ PagingIdle
    /\ fltView \in FilterViews
    /\ flt = NoFilters
    /\ fltShown = FALSE
    /\ fltInFlight = {}
    /\ fltStarted = 0
    /\ fltLast = "none"

\* The effects of the first render: fetchSheet() is called and the timer set; the
\* default-date effect of ArticlesPage fills the empty dates.
MountFilters ==
    /\ fltStarted = 0
    /\ fltStarted' = 1
    /\ fltInFlight' = {1}
    /\ flt' = (IF fltView = "Articles" THEN WithDefaultDates(flt) ELSE flt)
    /\ fltLast' = "mount"
    /\ UNCHANGED <<fltView, fltShown, pageVars, dateVars, aggVars, csvVars, toneVars,
                   fieldVars, overviewVars, shareVars, pagingVars, breakdownVars>>

\* The timer fires, or "Refresh data" is clicked: another fetch starts.
StartRefresh ==
    /\ fltStarted >= 1 /\ fltStarted < MaxRefreshes
    /\ fltStarted' = fltStarted + 1
    /\ fltInFlight' = fltInFlight \cup {fltStarted + 1}
    /\ fltLast' = "start"
    /\ UNCHANGED <<fltView, flt, fltShown, pageVars, dateVars, aggVars, csvVars,
                   toneVars, fieldVars, overviewVars, shareVars, pagingVars,
                   breakdownVars>>

\* The user changes one filter of the page in its control.
ChangeOneFilter ==
    /\ fltShown
    /\ \E name \in FiltersOf(fltView) :
          \E value \in (CASE name \in {"dateFrom", "dateTo"} -> DateInputs
                          [] name = "companyFilter" -> CompanyChoices
                          [] name = "sentimentFilter" -> SentimentChoices
                          [] OTHER -> MediaTypeChoices) :
             /\ value # flt[name]
             /\ flt' = [flt EXCEPT ![name] = value]
    /\ fltLast' = "user"
    /\ UNCHANGED <<fltView, fltShown, fltInFlight, fltStarted, pageVars, dateVars,
                   aggVars, csvVars, toneVars, fieldVars, overviewVars, shareVars,
                   pagingVars, breakdownVars>>

\* A success that sets the dates from the values fetchSheet saw when the effect of
\* the first render created it (both empty).
RefreshSucceeds_staleDates ==
    /\ \E id \in fltInFlight : fltInFlight' = fltInFlight \ {id}
    /\ flt' = [flt EXCEPT !.dateFrom = DEFAULT_START_DATE, !.dateTo = FilterToday]
    /\ fltShown' = TRUE
    /\ fltLast' = "succeeded"
    /\ UNCHANGED <<fltView, fltStarted, pageVars, dateVars, aggVars, csvVars,
                   toneVars, fieldVars, overviewVars, shareVars, pagingVars,
                   breakdownVars>>

\* A fetch succeeds: setRows(mapped), then the two date setters, each given the
\* current value of its filter.
RefreshSucceeds ==
    /\ \E id \in fltInFlight : fltInFlight' = fltInFlight \ {id}
    /\ flt' = WithDefaultDates(flt)
    /\ fltShown' = TRUE
    /\ fltLast' = "succeeded"
    /\ UNCHANGED <<fltView, fltStarted, pageVars, dateVars, aggVars, csvVars,
                   toneVars, fieldVars, overviewVars, shareVars, pagingVars,
                   breakdownVars>>

\* A fetch fails: the catch block sets the error and nothing else.
RefreshFails ==
    /\ \E id \in fltInFlight : fltInFlight' = fltInFlight \ {id}
    /\ fltLast' = "failed"
    /\ UNCHANGED <<fltView, flt, fltShown, fltStarted, pageVars, dateVars, aggVars,
                   csvVars, toneVars, fieldVars, overviewVars, shareVars, pagingVars,
                   breakdownVars>>

FilterNext ==
    \/ MountFilters
    \/ StartRefresh
    \/ ChangeOneFilter
    \/ RefreshSucceeds
    \/ RefreshFails

SpecFilters == FilterInit /\ [][FilterNext]_vars

(***************************************************************************)
(* Claims about the filters (checked under SpecFilters)                    *)
(***************************************************************************)
\* A fetch settles in the step.
Settles == fltInFlight' # fltInFlight /\ fltStarted' = fltStarted

\* C30: a data refresh leaves the filter state of the user unchanged: a successful
\* fetch sets dateFrom and dateTo to their defaults only when they are empty and never
\* overwrites a non-empty date bound or the category, sentiment or media-type filter;
\* a failed fetch changes no filter at all.
C30_RefreshKeepsFilters ==
    [][Settles =>
          /\ flt'.companyFilter = flt.companyFilter
          /\ flt'.sentimentFilter = flt.sentimentFilter
          /\ flt'.mediaType = flt.mediaType
          /\ flt.dateFrom # <<>> => flt'.dateFrom = flt.dateFrom
          /\ flt.dateTo # <<>> => flt'.dateTo = flt.dateTo
          /\ fltLast' = "succeeded" =>
                /\ flt.dateFrom = <<>> => flt'.dateFrom = DEFAULT_START_DATE
                /\ flt.dateTo = <<>> => flt'.dateTo = FilterToday
          /\ fltLast' = "failed" => flt' = flt]_vars

\* A refresh has succeeded on the Overview page after the user chose a start date, a
\* company and a sentiment and emptied the end date: the choices stand and the end
\* date is today.
C30_Witness ==
    /\ fltView = "Overview"
    /\ fltLast = "succeeded"
    /\ fltStarted > 1
    /\ flt = [dateFrom |-> <<"2", "0", "2", "5", "-", "0", "2", "-", "0", "1">>,
              dateTo |-> FilterToday,
              companyFilter |-> "Client A",
              sentimentFilter |-> "Negatif",
              mediaType |-> "Semua"]

====
